---- MODULE Spec2Model ----
(***************************************************************************)
(* Wheel_Finder: the ingestion / normalisation / ranking pipeline.         *)
(*                                                                         *)
(*   Toyota_Official.py  fill_cars, parse_car_details                      *)
(*   Honda_Official.py   scrape_car_data, scrape_all_cars                  *)
(*   Rec_Generator.py    the merge script                                  *)
(*   WheelFinder.py      generate_recs                                     *)
(*                       run_scraper, run_scrapers_background,             *)
(*                       /run_scrapers, /scraper_status                    *)
(*                                                                         *)
(* Texts are sequences of one-character strings, so that substring tests,  *)
(* stripping, formatting and parsing are computed rather than assumed.     *)
(* Optional numbers (NaN-able cells) are sequences of length 0 or 1.       *)
(***************************************************************************)
EXTENDS Integers, Sequences, FiniteSets, TLC

VARIABLES
    \* ---- Toyota_Official.fill_cars
    result_list,    \* the tags consumed so far by `for tag in result_list`
    current_car,    \* the group being accumulated
    cars,           \* the list of groups
    groups,         \* ghost: `cars` as it stands before the cleaning loop
    ci,             \* the cleaning loop's index i (1-based)
    fpc,            \* position in fill_cars: "loop", "clean", "done"
    \* ---- Toyota_Official.parse_car_details
    car_dict,       \* the dictionary being filled
    ptag,           \* the loop variable `tag` (last slot consumed)
    pn,             \* number of slots consumed
    first_set,      \* ghost: per field, the first text the loop stored in it
    ppc,            \* "idle", "loop", "done", "raised"
    \* ---- Honda_Official.scrape_car_data
    car_data,       \* the dictionary being filled (a function on its keys)
    hpc,            \* position in scrape_car_data
    rule,           \* index of the pattern the current loop is at (1-based)
    rejected,       \* ghost: the fields for which a match failed its bound
    hresult,        \* the value returned: <<>> before return, else <<value>>
    \* ---- Rec_Generator (module level script)
    hsrc,           \* what the Honda scraper found for each row of Honda.csv
    tsrc,           \* what the Toyota scraper found for each row of Toyota.csv
    Honda,          \* pd.read_csv("Honda.csv")
    Toyota,         \* pd.read_csv("Toyota.csv")
    combined_df,    \* the table being built
    inventory,      \* Wheelfinder_Inventory.csv as read back (<<>> until written)
    mpc,            \* position in the script
    \* ---- WheelFinder.generate_recs
    inventory_df,   \* the table passed in (left as it is)
    prefs,          \* brand_pref and the three (target, weight) pairs
    df,             \* the function's working copy
    rout,           \* the frame returned (<<>> until then)
    rpc,            \* position in generate_recs
    top_5,          \* df.nlargest(5, 'Score'), rows with their index labels
    calls,          \* which call with these arguments this is (1 or 2)
    first_out,      \* what the first call returned
    \* ---- Honda_Official.scrape_all_cars
    urls,           \* the listings of the batch, each with what its page does
    bi,             \* the loop's i
    hcars,          \* cars: i -> car_data of the listings that gave a record
    visited,        \* the i for which scrape_car_data was called, in order
    interrupted,    \* the loop was left through KeyboardInterrupt
    bdf,            \* the frame returned
    bpc,            \* position in scrape_all_cars
    \* ---- WheelFinder: /run_scrapers, run_scrapers_background, /scraper_status
    scraper_status, \* the global dict: [running, complete]
    runs,           \* one entry per POST /run_scrapers, in order of arrival
    seen            \* what the last GET /scraper_status returned (<<>> if none)

segVars   == <<result_list, current_car, cars, groups, ci, fpc>>
parseVars == <<car_dict, ptag, pn, first_set, ppc>>
hondaVars == <<car_data, hpc, rule, rejected, hresult>>
mergeVars == <<hsrc, tsrc, Honda, Toyota, combined_df, inventory, mpc>>
rankVars  == <<inventory_df, prefs, df, rout, rpc, top_5, calls, first_out>>
batchVars == <<urls, bi, hcars, visited, interrupted, bdf, bpc>>
runVars   == <<scraper_status, runs, seen>>

-----------------------------------------------------------------------------
(* Bounds *)

MaxFrags == 9       \* longest fragment stream fed to fill_cars

-----------------------------------------------------------------------------
(* Text helpers: Python str operations on sequences of characters *)

Digits == {"0","1","2","3","4","5","6","7","8","9"}

\* `k in s`
Contains(s, k) ==
    \E i \in 0..(Len(s) - Len(k)) : SubSeq(s, i + 1, i + Len(k)) = k

\* any(keyword in text for keyword in ks)
ContainsAny(s, ks) == \E k \in ks : Contains(s, k)

\* str.upper(), on the letters the sample texts use
UpperChar(c) ==
    CASE c = "a" -> "A" [] c = "c" -> "C" [] c = "e" -> "E" [] c = "p" -> "P"
      [] c = "s" -> "S" [] c = "t" -> "T" [] c = "r" -> "R" [] c = "l" -> "L"
      [] c = "y" -> "Y" [] c = "b" -> "B" [] c = "d" -> "D" [] c = "i" -> "I"
      [] c = "n" -> "N" [] c = "m" -> "M" [] c = "h" -> "H" [] c = "w" -> "W"
      [] c = "k" -> "K" [] c = "v" -> "V" [] c = "o" -> "O" [] c = "u" -> "U"
      [] OTHER -> c
Upper(s) == [i \in 1..Len(s) |-> UpperChar(s[i])]

\* str.strip(): leading and trailing blanks removed
RECURSIVE LStrip(_)
LStrip(s) == IF s # <<>> /\ Head(s) = " " THEN LStrip(Tail(s)) ELSE s
RECURSIVE RStrip(_)
RStrip(s) ==
    IF s # <<>> /\ s[Len(s)] = " " THEN RStrip(SubSeq(s, 1, Len(s) - 1)) ELSE s
Strip(s) == RStrip(LStrip(s))

\* str.isdigit()
IsDigit(s) == s # <<>> /\ \A i \in 1..Len(s) : s[i] \in Digits

NA == <<"N","A">>      \* the literal 'NA'

DigitVal(c) ==
    CASE c = "0" -> 0 [] c = "1" -> 1 [] c = "2" -> 2 [] c = "3" -> 3
      [] c = "4" -> 4 [] c = "5" -> 5 [] c = "6" -> 6 [] c = "7" -> 7
      [] c = "8" -> 8 [] c = "9" -> 9
DigitChar(n) ==
    CASE n = 0 -> "0" [] n = 1 -> "1" [] n = 2 -> "2" [] n = 3 -> "3"
      [] n = 4 -> "4" [] n = 5 -> "5" [] n = 6 -> "6" [] n = 7 -> "7"
      [] n = 8 -> "8" [] n = 9 -> "9"

\* int(s) / float(s) of a string of decimal digits
RECURSIVE ParseDigits(_)
ParseDigits(s) ==
    IF s = <<>> THEN 0
    ELSE ParseDigits(SubSeq(s, 1, Len(s) - 1)) * 10 + DigitVal(s[Len(s)])

\* f"{n}" of a non-negative int
RECURSIVE FormatInt(_)
FormatInt(n) ==
    IF n < 10 THEN <<DigitChar(n)>>
    ELSE FormatInt(n \div 10) \o <<DigitChar(n % 10)>>

\* Optional values: None / NaN is <<>>, a value v is <<v>>
None == <<>>
Some(v) == <<v>>

-----------------------------------------------------------------------------
(* Tags: a div.details-value element, or the padding string 'NA' *)

MARKER == "ddoa-interior-color"

\* span: "<none>" when the tag has no <span>, otherwise the span's type
\* attribute ("" when it has none).  pos is the tag's identity in the stream.
Tag(span, text, pos) ==
    [isTag |-> TRUE, span |-> span, text |-> text, pos |-> pos]

\* the Python str 'NA' that fill_cars pads with
NAstr == [isTag |-> FALSE, span |-> "<none>", text |-> NA, pos |-> 0]

\* "ddoa-interior-color" in (span.get("type") or "")
MarkerTypes == {"ddoa-interior-color", "ddoa-interior-color strong"}
HasMarkerType(type) == type \in MarkerTypes

\* span and "ddoa-interior-color" in (span.get("type") or "")
IsStartSpan(tag) == tag.span # "<none>" /\ HasMarkerType(tag.span)

\* 'Car' in tag.text or 'Utility' in tag.text or 'Mini-van' in tag.text
\* or 'CrewMax' in tag.text
StartKeywords ==
    { <<"C","a","r">>, <<"U","t","i","l","i","t","y">>,
      <<"M","i","n","i","-","v","a","n">>, <<"C","r","e","w","M","a","x">> }

-----------------------------------------------------------------------------
(* fill_cars *)

EXPECTED_FIELDS_PER_CAR == 7

\* the sample fragments of the segmenter
SegTagAt(pos) ==
    { Tag(MARKER, <<"B","l","a","c","k">>, pos),               \* boundary marker
      Tag("<none>", <<"4","d","r"," ","C","a","r">>, pos),     \* body-type keyword
      Tag("", <<"1","2","3","4">>, pos) }                      \* any other fragment

\* lines 131-136
is_start_NoArity(tag, cur) ==
    \/ IsStartSpan(tag)
    \/ /\ cur # <<>>
       /\ ContainsAny(tag.text, StartKeywords)
is_start(tag, cur) ==
    \/ IsStartSpan(tag)
    \/ /\ cur # <<>>
       /\ Len(cur) >= EXPECTED_FIELDS_PER_CAR
       /\ ContainsAny(tag.text, StartKeywords)

\* lines 138-139 and 142-143: `if current_car: cars.append(current_car)`
Flush_Always(cs, cur) == Append(cs, cur)
Flush_Never(cs, cur) == cs
Flush(cs, cur) == IF cur # <<>> THEN Append(cs, cur) ELSE cs

\* lines 130-141: one iteration of `for tag in result_list`
FillStep ==
    /\ fpc = "loop"
    /\ Len(result_list) < MaxFrags
    /\ \E tag \in SegTagAt(Len(result_list) + 1) :
          /\ result_list' = Append(result_list, tag)
          /\ IF is_start(tag, current_car)
                THEN /\ cars' = Flush(cars, current_car)
                     /\ current_car' = <<tag>>
                ELSE /\ cars' = cars
                     /\ current_car' = Append(current_car, tag)
    /\ UNCHANGED <<groups, ci, fpc>>
    /\ UNCHANGED <<parseVars, hondaVars, mergeVars, rankVars, batchVars, runVars>>

\* lines 142-143: the stream is exhausted
FillEnd ==
    /\ fpc = "loop"
    /\ cars' = Flush(cars, current_car)
    /\ groups' = cars'
    /\ ci' = 1
    /\ fpc' = "clean"
    /\ UNCHANGED <<result_list, current_car>>
    /\ UNCHANGED <<parseVars, hondaVars, mergeVars, rankVars, batchVars, runVars>>

\* lines 148-155: the cleaned form of one group
CleanCar_NoTruncate(car) ==
    IF Len(car) < 7
       THEN car \o [j \in 1..(7 - Len(car)) |-> NAstr]
       ELSE car
CleanCar(car) ==
    IF Len(car) < 7
       THEN SubSeq(car, 1, Len(car)) \o [j \in 1..(7 - Len(car)) |-> NAstr]
       ELSE IF Len(car) > 7 THEN SubSeq(car, 1, 7) ELSE car

\* lines 146-155: one iteration of the cleaning loop
CleanStep ==
    /\ fpc = "clean"
    /\ ci <= Len(cars)
    /\ cars' = [cars EXCEPT ![ci] = CleanCar(cars[ci])]
    /\ ci' = ci + 1
    /\ UNCHANGED <<result_list, current_car, groups, fpc>>
    /\ UNCHANGED <<parseVars, hondaVars, mergeVars, rankVars, batchVars, runVars>>

\* line 156
FillReturn ==
    /\ fpc = "clean"
    /\ ci > Len(cars)
    /\ fpc' = "done"
    /\ UNCHANGED <<result_list, current_car, cars, groups, ci>>
    /\ UNCHANGED <<parseVars, hondaVars, mergeVars, rankVars, batchVars, runVars>>

-----------------------------------------------------------------------------
(* parse_car_details *)

Keys == {"Interior Color", "Body Type", "Drive Type", "MPG", "Engine",
         "Transmission", "Model Code"}

\* the outcome of calling a method the value does not have
AttributeError == <<"!AttributeError">>

\* hasattr(tag, "get_text"): a bs4 Tag has it, a str has not
hasattr_get_text(tag) == tag.isTag
\* hasattr(tag, "find") and hasattr(tag, "get"): str has find but no get
hasattr_find_get(tag) == tag.isTag

\* tag.get_text(strip=True)
get_text(tag) == IF tag.isTag THEN Strip(tag.text) ELSE AttributeError

\* lines 181-184
TagText_NoGuard(tag) == get_text(tag)
TagText(tag) ==
    IF hasattr_get_text(tag) THEN get_text(tag) ELSE Strip(tag.text)

\* line 192
BodyKeywords ==
    { <<"C","a","r">>, <<"U","t","i","l","i","t","y">>,
      <<"M","i","n","i","-","v","a","n">>, <<"X","t","r","a","C","a","b">>,
      <<"C","r","e","w","M","a","x">>, <<"D","o","u","b","l","e"," ","C","a","b">> }
\* line 196
DriveKeywords ==
    { <<"W","h","e","e","l"," ","D","r","i","v","e">>,
      <<"A","l","l"," ","W","h","e","e","l">>,
      <<"F","o","u","r"," ","W","h","e","e","l">>,
      <<"F","r","o","n","t"," ","W","h","e","e","l">>,
      <<"R","e","a","r"," ","W","h","e","e","l">> }
\* line 202
EngineKeywords ==
    { <<"E","n","g","i","n","e">>, <<"M","o","t","o","r">>,
      <<"H","y","b","r","i","d">>, <<"T","u","r","b","o">>, <<"C","y","l">> }
TRANSMISSION == <<"T","r","a","n","s","m","i","s","s","i","o","n">>

DROPPED == "<dropped>"

\* lines 185-210: the field the loop body stores `text` in, given the
\* dictionary so far; DROPPED when no rule stores it
Classify(d, tag, text) ==
    IF hasattr_find_get(tag) /\ IsStartSpan(tag) THEN "Interior Color"
    ELSE IF ContainsAny(text, BodyKeywords) /\ d["Body Type"] = NA
         THEN "Body Type"
    ELSE IF ContainsAny(text, DriveKeywords) THEN "Drive Type"
    ELSE IF Contains(text, <<"/">>) /\ Contains(Upper(text), <<"E","P","A">>)
         THEN "MPG"
    ELSE IF ContainsAny(text, EngineKeywords) /\ ~Contains(text, TRANSMISSION)
         THEN "Engine"
    ELSE IF Contains(text, TRANSMISSION) THEN "Transmission"
    ELSE IF IsDigit(text) THEN "Model Code"
    ELSE DROPPED

\* the sample slots of a 7-slot group
MarkerTags == { Tag(MARKER, <<" ","B","l","a","c","k"," ">>, 0) }
PlainTags ==
    { Tag("<none>", <<"4","d","r"," ","C","a","r">>, 0),
      Tag("<none>", <<"H","y","b","r","i","d"," ","C","a","r">>, 0),
      Tag("<none>", <<"A","l","l"," ","W","h","e","e","l"," ","D","r","i","v","e">>, 0),
      Tag("<none>", <<"3","1","/","4","0"," ","e","p","a">>, 0),
      Tag("<none>", <<"4","-","C","y","l">>, 0),
      Tag("<none>", <<"H","y","b","r","i","d"," ">> \o TRANSMISSION, 0),
      Tag("<none>", <<" ","1","2","3","4">>, 0),
      Tag("<none>", <<"5","6","7","8">>, 0),
      Tag("other", <<"R","e","d">>, 0) }
ParseTags == MarkerTags \cup PlainTags \cup {NAstr}

\* the slots fill_cars can put at position n+1 of a group: a boundary marker
\* only opens a group, and padding is a non-empty group's tail
SlotChoices(n, last) ==
    IF n = 0 THEN MarkerTags \cup PlainTags
    ELSE IF last = NAstr THEN {NAstr}
    ELSE PlainTags \cup {NAstr}

\* lines 169-177
EmptyDict == [k \in Keys |-> NA]

\* lines 179-210: the dictionary after one iteration on `tag`
ParseStep(d, tag) ==
    LET text == TagText(tag)
        f    == Classify(d, tag, text)
    IN  IF f = DROPPED THEN d ELSE [d EXCEPT ![f] = text]

\* lines 169-211: the dictionary returned for a whole group
RECURSIVE parse_car_details(_)
parse_car_details(car_tags) ==
    IF car_tags = <<>> THEN EmptyDict
    ELSE ParseStep(parse_car_details(SubSeq(car_tags, 1, Len(car_tags) - 1)),
                   car_tags[Len(car_tags)])

\* lines 179-210: one iteration of `for tag in car_tags`
ParseTag ==
    /\ ppc = "loop"
    /\ pn < EXPECTED_FIELDS_PER_CAR
    /\ \E tag \in SlotChoices(pn, ptag) :
          LET text == TagText(tag)
              f    == Classify(car_dict, tag, text)
          IN  /\ ptag' = tag
              /\ pn' = pn + 1
              /\ IF text = AttributeError
                    THEN /\ ppc' = "raised"
                         /\ UNCHANGED <<car_dict, first_set>>
                    ELSE /\ ppc' = ppc
                         /\ IF f = DROPPED
                               THEN UNCHANGED <<car_dict, first_set>>
                               ELSE /\ car_dict' = ParseStep(car_dict, tag)
                                    /\ first_set' =
                                          IF first_set[f] = NA
                                             THEN [first_set EXCEPT ![f] = text]
                                             ELSE first_set
    /\ UNCHANGED <<segVars, hondaVars, mergeVars, rankVars, batchVars, runVars>>

\* line 211
ParseReturn ==
    /\ ppc = "loop"
    /\ pn = EXPECTED_FIELDS_PER_CAR
    /\ ppc' = "done"
    /\ UNCHANGED <<car_dict, ptag, pn, first_set>>
    /\ UNCHANGED <<segVars, hondaVars, mergeVars, rankVars, batchVars, runVars>>

-----------------------------------------------------------------------------
(* Honda_Official.scrape_car_data *)

\* d[k] = v
Put(d, k, v) == (k :> v) @@ d
NoDict == <<>>           \* car_data before line 111

\* Sample URLs with the captures of url_pattern (line 114): <<>> when the
\* pattern does not match, else <<year, make, parts>> where parts is
\* group(3) split on '-'
UrlSamples ==
    { [url |-> "u-nomatch", m |-> <<>>],
      [url |-> "u-accord",  m |-> <<"2024", "Honda", <<"Accord">> >>],
      [url |-> "u-hybrid",  m |-> <<"2024", "Honda", <<"CR", "V", "Hybrid", "EX">> >>] }

\* lines 115-128
UrlFields(d, u) ==
    IF u.m = <<>> THEN d
    ELSE LET parts == u.m[3]
             d1 == Put(Put(d, "Year", u.m[1]), "Make", u.m[2])
         IN  IF Len(parts) >= 2
                THEN Put(Put(d1, "Trim", parts[Len(parts)]),
                         "Model", SubSeq(parts, 1, Len(parts) - 1))
                ELSE Put(d1, "Model", parts)

\* lines 101-111: load the page; a bot-challenge page or an exception
\* returns None
HGet ==
    /\ hpc = "get"
    /\ \E u \in UrlSamples, outcome \in {"ok", "cloudflare", "exception"} :
          IF outcome = "ok"
             THEN /\ car_data' = UrlFields([url |-> u.url], u)
                  /\ hpc' = "body"
                  /\ hresult' = <<>>
             ELSE /\ car_data' = NoDict
                  /\ hpc' = "returned"
                  /\ hresult' = Some(None)
    /\ UNCHANGED <<rule, rejected>>
    /\ UNCHANGED <<segVars, parseVars, mergeVars, rankVars, batchVars, runVars>>

\* group(1).strip() of the first body pattern that matches, or no match
B_Sedan == <<"S","e","d","a","n">>
B_4DSportUtility ==
    <<"4","D"," ","S","p","o","r","t"," ","U","t","i","l","i","t","y">>
BodyMatches == { None, Some(B_Sedan), Some(B_4DSportUtility) }

\* line 155
SetTransmission(d) == Put(d, "Transmission", <<"N","/","A">>)

\* lines 141-155
HBody ==
    /\ hpc = "body"
    /\ \E m \in BodyMatches :
          car_data' = SetTransmission(
              IF m # None /\ "Body Style" \notin DOMAIN car_data
                 THEN Put(car_data, "Body Style", m[1]) ELSE car_data)
    /\ hpc' = "mpg"
    /\ rule' = 1
    /\ UNCHANGED <<rejected, hresult>>
    /\ UNCHANGED <<segVars, parseVars, mergeVars, rankVars, batchVars, runVars>>

MPG_RULES == 7          \* len(mpg_patterns)
PRICE_RULES == 4        \* len(price_patterns)
MPG_MIN == 10
MPG_MAX == 150
PRICE_MIN == 10000
PRICE_MAX == 200000

\* what (\d+) captures on the sample pages
MpgDigits == { <<"9">>, <<"1","0">>, <<"0","3","0">>, <<"1","5","0">>,
               <<"1","5","1">> }
MpgMatches == {None} \cup { Some(<<c, h>>) : c \in MpgDigits, h \in MpgDigits }

\* line 172
MpgOk(city, highway) ==
    /\ MPG_MIN <= city /\ city <= MPG_MAX
    /\ MPG_MIN <= highway /\ highway <= MPG_MAX

\* line 173: f"{city} / {highway}"
HondaMPGString_Swapped(city, highway) ==
    FormatInt(highway) \o <<" ", "/", " ">> \o FormatInt(city)
HondaMPGString(city, highway) ==
    FormatInt(city) \o <<" ", "/", " ">> \o FormatInt(highway)

\* lines 172-174 and 189-191: `break` stands under the bound test, so a loop
\* is left only by a match whose value is in bounds
Breaks_OnMatch(matched, inbounds) == matched
Breaks(matched, inbounds) == matched /\ inbounds

\* lines 167-174: one iteration of `for pattern in mpg_patterns`
HMpgRule ==
    /\ hpc = "mpg"
    /\ rule <= MPG_RULES
    /\ \E m \in MpgMatches :
          LET matched == m # None
              city    == ParseDigits(m[1][1])
              highway == ParseDigits(m[1][2])
              ok      == matched /\ MpgOk(city, highway)
          IN  /\ car_data' = IF ok
                                THEN Put(car_data, "MPG",
                                         HondaMPGString(city, highway))
                                ELSE car_data
              /\ rejected' = IF matched /\ ~ok
                                THEN rejected \cup {"MPG"} ELSE rejected
              /\ IF Breaks(matched, ok)
                    THEN hpc' = "price" /\ rule' = 1
                    ELSE hpc' = hpc /\ rule' = rule + 1
    /\ UNCHANGED hresult
    /\ UNCHANGED <<segVars, parseVars, mergeVars, rankVars, batchVars, runVars>>

\* the mpg loop ran out of patterns
HMpgEnd ==
    /\ hpc = "mpg"
    /\ rule > MPG_RULES
    /\ hpc' = "price"
    /\ rule' = 1
    /\ UNCHANGED <<car_data, rejected, hresult>>
    /\ UNCHANGED <<segVars, parseVars, mergeVars, rankVars, batchVars, runVars>>

\* what ([\d,]+) captures on the sample pages
PriceCaptures ==
    { <<"9",",","9","9","9">>, <<"1","0",",","0","0","0">>,
      <<"2","5","0","0","0">>, <<"2","0","0",",","0","0","0">>,
      <<"2","0","0","0","0","1">>, <<",">> }
PriceMatches == {None} \cup { Some(c) : c \in PriceCaptures }

\* line 186: .replace(',', '')
RECURSIVE RemoveCommas(_)
RemoveCommas(s) ==
    IF s = <<>> THEN <<>>
    ELSE IF Head(s) = "," THEN RemoveCommas(Tail(s))
    ELSE <<Head(s)>> \o RemoveCommas(Tail(s))

\* line 188: float(price_str); None stands for the ValueError on ''
ParseFloat(s) == IF IsDigit(s) THEN Some(ParseDigits(s)) ELSE None

\* line 189
PriceOk_NoUpper(price) == PRICE_MIN <= price
PriceOk(price) == PRICE_MIN <= price /\ price <= PRICE_MAX

\* lines 183-193: one iteration of `for pattern in price_patterns`; a
\* ValueError of float() is swallowed by the bare except of line 192
HPriceRule ==
    /\ hpc = "price"
    /\ rule <= PRICE_RULES
    /\ \E m \in PriceMatches :
          LET price   == IF m = None THEN None ELSE ParseFloat(RemoveCommas(m[1]))
              matched == price # None
              ok      == matched /\ PriceOk(price[1])
          IN  /\ car_data' = IF ok THEN Put(car_data, "Price", price[1])
                                    ELSE car_data
              /\ rejected' = IF matched /\ ~ok
                                THEN rejected \cup {"Price"} ELSE rejected
              /\ IF Breaks(matched, ok)
                    THEN hpc' = "fuel" /\ rule' = 1
                    ELSE hpc' = hpc /\ rule' = rule + 1
    /\ UNCHANGED hresult
    /\ UNCHANGED <<segVars, parseVars, mergeVars, rankVars, batchVars, runVars>>

\* the price loop ran out of patterns
HPriceEnd ==
    /\ hpc = "price"
    /\ rule > PRICE_RULES
    /\ hpc' = "fuel"
    /\ rule' = 1
    /\ UNCHANGED <<car_data, rejected, hresult>>
    /\ UNCHANGED <<segVars, parseVars, mergeVars, rankVars, batchVars, runVars>>

\* group(1).strip() of the first fuel pattern that matches, or no match
FuelMatches == { None, Some("Gasoline") }

\* line 208: 'hybrid' in car_data['Model'].lower()
ModelIsHybrid(model) ==
    \E i \in 1..Len(model) : model[i] \in {"Hybrid", "hybrid", "HYBRID"}

\* lines 196-209
FuelFields(d, m) ==
    LET d1 == IF m # None /\ "Fuel Type" \notin DOMAIN d
                 THEN Put(d, "Fuel Type", m[1]) ELSE d
    IN  IF "Fuel Type" \notin DOMAIN d1 /\ "Model" \in DOMAIN d1
           /\ ModelIsHybrid(d1["Model"])
           THEN Put(d1, "Fuel Type", "Hybrid") ELSE d1

\* line 211: car_data if len(car_data) > 1 else None
ReturnValue(d) == IF Cardinality(DOMAIN d) > 1 THEN Some(d) ELSE None

\* lines 196-211
HFuelReturn ==
    /\ hpc = "fuel"
    /\ \E m \in FuelMatches :
          /\ car_data' = FuelFields(car_data, m)
          /\ hresult' = Some(ReturnValue(car_data'))
    /\ hpc' = "returned"
    /\ UNCHANGED <<rule, rejected>>
    /\ UNCHANGED <<segVars, parseVars, mergeVars, rankVars, batchVars, runVars>>

-----------------------------------------------------------------------------
(* The two brand tables, as the scrapers write them and read_csv reads them *)

MaxRows == 2        \* most rows of one brand table

\* pandas' default na_values that the scrapers' texts can take: a text cell
\* holding one of them is read back as NaN
NaValues == { <<>>, NA, <<"N","/","A">>, <<"N","a","N">>, <<"n","a","n">>,
              <<"n","u","l","l">>, <<"N","U","L","L">>, <<"N","o","n","e">> }

\* a text cell through to_csv and read_csv
CsvText(t) == IF t \in NaValues THEN None ELSE Some(t)

\* What scrape_car_data returns (Honda_Official.py lines 111-211) on a page
\* where url_pattern gives p.u, the first matching body pattern p.body, the
\* first MPG match parsing to p.mpg, the first price match parsing to
\* p.price and the first fuel match p.fuel
HondaDict(p) ==
    LET d0 == UrlFields([url |-> p.u.url], p.u)
        d1 == SetTransmission(
                  IF p.body # None THEN Put(d0, "Body Style", p.body[1]) ELSE d0)
        d2 == IF p.mpg # None /\ MpgOk(p.mpg[1][1], p.mpg[1][2])
                 THEN Put(d1, "MPG", HondaMPGString(p.mpg[1][1], p.mpg[1][2]))
                 ELSE d1
        d3 == IF p.price # None /\ PriceOk(p.price[1])
                 THEN Put(d2, "Price", p.price[1]) ELSE d2
    IN  FuelFields(d3, p.fuel)

\* Honda_Official.py lines 256-285 and Rec_Generator.py line 4: the row of
\* Honda.csv for one returned dictionary, as read_csv gives it back
HondaCsvRow(d) ==
    LET text(k) == IF k \in DOMAIN d THEN CsvText(d[k]) ELSE None
        cell(k) == IF k \in DOMAIN d THEN Some(d[k]) ELSE None
    IN  [c \in {"Model", "Brand", "Year", "Transmission", "Price", "Body Type",
                "MPG", "Engine"} |->
           CASE c = "Model"        -> cell("Model")
             [] c = "Brand"        -> cell("Make")
             [] c = "Year"         -> cell("Year")
             [] c = "Transmission" -> text("Transmission")
             [] c = "Price"        -> cell("Price")
             [] c = "Body Type"    -> text("Body Style")
             [] c = "MPG"          -> text("MPG")
             [] c = "Engine"       -> cell("Fuel Type")]

\* Honda_Official.py lines 280-281: df[new_order] needs every column of
\* new_order to occur in some scraped dictionary, else no Honda.csv is written
HondaTableOk(src) ==
    /\ Len(src) >= 1
    /\ \A k \in {"Model", "Make", "Year", "Transmission", "Price", "Body Style",
                 "MPG", "Fuel Type"} :
          \E i \in 1..Len(src) : k \in DOMAIN HondaDict(src[i])

\* Toyota_Official.py lines 57-73 and 213-232, Rec_Generator.py line 5: the
\* row of Toyota.csv for one listing's JSON-LD block j and its fragment
\* group.  (Transmission occurs in both frames of the concat of line 228, so
\* both columns are selected and read_csv names the second Transmission.1.)
ToyotaCsvRow(t) ==
    LET d == parse_car_details(t.group)
    IN  [c \in {"Model", "Brand", "Year", "Transmission", "Transmission.1",
                "Price", "Body Type", "MPG", "Engine"} |->
           CASE c = "Model"          -> Some(t.model)
             [] c = "Brand"          -> Some("Toyota")
             [] c = "Year"           -> Some("2025")
             [] c = "Transmission"   -> Some("Automatic")
             [] c = "Transmission.1" -> CsvText(d["Transmission"])
             [] c = "Price"          -> t.price
             [] c = "Body Type"      -> CsvText(d["Body Type"])
             [] c = "MPG"            -> CsvText(d["MPG"])
             [] c = "Engine"         -> CsvText(d["Engine"])]

-----------------------------------------------------------------------------
(* Honda_Official.scrape_all_cars *)

\* What a call of scrape_car_data gives for a listing l: l.p is what the
\* patterns find on its page, l.outcome what loading the page does.  A
\* bot-challenge page (lines 106-109) and any exception, a timeout among
\* them (lines 214-216), give None and nothing is raised.
ScrapeResult_Propagates(l) ==
    [raised |-> l.outcome = "exception",
     value  |-> IF l.outcome = "ok" THEN ReturnValue(HondaDict(l.p)) ELSE None]
ScrapeResult(l) ==
    [raised |-> FALSE,
     value  |-> IF l.outcome = "ok" THEN ReturnValue(HondaDict(l.p)) ELSE None]

\* lines 236-244: one turn of the loop.  An exception raised in the body
\* would end the loop through the handler of lines 248-251.
BStep ==
    /\ bpc = "loop"
    /\ bi <= Len(urls)
    /\ LET r == ScrapeResult(urls[bi])
       IN  IF r.raised
              THEN /\ bpc' = "stopped"
                   /\ UNCHANGED <<bi, hcars>>
              ELSE /\ hcars' = IF r.value # None /\ r.value[1] # NoDict
                                  THEN Put(hcars, bi, r.value[1]) ELSE hcars
                   /\ bi' = bi + 1
                   /\ bpc' = bpc
    /\ visited' = Append(visited, bi)
    /\ UNCHANGED <<urls, interrupted, bdf>>
    /\ UNCHANGED <<segVars, parseVars, hondaVars, mergeVars, rankVars, runVars>>

\* lines 246-247: Ctrl-C while the loop runs
BInterrupt ==
    /\ bpc = "loop"
    /\ bi <= Len(urls)
    /\ interrupted' = TRUE
    /\ bpc' = "stopped"
    /\ UNCHANGED <<urls, bi, hcars, visited, bdf>>
    /\ UNCHANGED <<segVars, parseVars, hondaVars, mergeVars, rankVars, runVars>>

\* line 256: pd.DataFrame.from_dict(cars, orient='index'): one row per key in
\* the order of insertion (ascending i), the columns those of any record
FromDict(records) ==
    LET cols == UNION { DOMAIN records[k] : k \in DOMAIN records }
        RECURSIVE Rows(_)
        Rows(keys) ==
            IF keys = {} THEN <<>>
            ELSE LET k == CHOOSE x \in keys : \A y \in keys : x <= y
                 IN  << [c \in cols |-> IF c \in DOMAIN records[k]
                                           THEN Some(records[k][c]) ELSE None] >>
                     \o Rows(keys \ {k})
    IN  Rows(DOMAIN records)

\* lines 252-273: after the loop, or after a handler
BReturn ==
    /\ \/ bpc = "loop" /\ bi > Len(urls)
       \/ bpc = "stopped"
    /\ bdf' = FromDict(hcars)
    /\ bpc' = "done"
    /\ UNCHANGED <<urls, bi, hcars, visited, interrupted>>
    /\ UNCHANGED <<segVars, parseVars, hondaVars, mergeVars, rankVars, runVars>>

-----------------------------------------------------------------------------
(* Rec_Generator.py *)

Spaces == {" "}

\* the last index e >= i-1 with s[i..e] all in S
RunEnd(s, i, S) ==
    LET ok == { e \in (i - 1)..Len(s) : \A k \in i..e : s[k] \in S }
    IN  CHOOSE e \in ok : \A f \in ok : f <= e

\* where a match of \d+\s*/\s*\d+ that starts at i ends; 0 when there is none
MatchEnd(s, i) ==
    LET d1 == RunEnd(s, i, Digits)
        w1 == RunEnd(s, d1 + 1, Spaces)
        w2 == RunEnd(s, w1 + 2, Spaces)
        d2 == RunEnd(s, w2 + 1, Digits)
    IN  IF d1 < i THEN 0
        ELSE IF w1 + 1 > Len(s) \/ s[w1 + 1] # "/" THEN 0
        ELSE IF d2 < w2 + 1 THEN 0
        ELSE d2

\* line 9: .str.extract(r'(\d+\s*/\s*\d+)', expand=False) on one cell
StrExtract(cell) ==
    IF cell = None THEN None
    ELSE LET t == cell[1]
             starts == { i \in 1..Len(t) : MatchEnd(t, i) > 0 }
         IN  IF starts = {} THEN None
             ELSE LET i == CHOOSE a \in starts : \A b \in starts : a <= b
                  IN  Some(SubSeq(t, i, MatchEnd(t, i)))

\* re.sub(r'\s*/\s*', ' / ', t)
RECURSIVE ReplaceSlash(_)
ReplaceSlash(t) ==
    IF t = <<>> THEN <<>>
    ELSE LET w == RunEnd(t, 1, Spaces)
         IN  IF w < Len(t) /\ t[w + 1] = "/"
                THEN <<" ", "/", " ">> \o
                     ReplaceSlash(SubSeq(t, RunEnd(t, w + 2, Spaces) + 1, Len(t)))
                ELSE <<Head(t)>> \o ReplaceSlash(Tail(t))

\* line 12: .str.replace(r'\s*/\s*', ' / ', regex=True) on one cell
StrReplace(cell) == IF cell = None THEN None ELSE Some(ReplaceSlash(cell[1]))

\* t.split(' / ')
RECURSIVE SplitSlash(_)
SplitSlash(t) ==
    LET at == { i \in 1..(Len(t) - 2) : SubSeq(t, i, i + 2) = <<" ", "/", " ">> }
    IN  IF at = {} THEN <<t>>
        ELSE LET i == CHOOSE a \in at : \A b \in at : a <= b
             IN  <<SubSeq(t, 1, i - 1)>> \o SplitSlash(SubSeq(t, i + 3, Len(t)))

\* line 15: .str.split(' / ', expand=True): the cells of one row
StrSplit(cell) == IF cell = None THEN <<>> ELSE SplitSlash(cell[1])

\* line 18: .astype(float) on one cell
ToFloat(cell) == IF cell = None THEN None ELSE ParseFloat(cell[1])

\* lines 26-38
bodytype_to_seats ==
    { << <<"S","e","d","a","n">>, 5 >>,
      << <<"S","p","o","r","t"," ","U","t","i","l","i","t","y">>, 5 >>,
      << <<"P","a","s","s","e","n","g","e","r"," ","V","a","n">>, 12 >>,
      << <<"C","r","e","w"," ","C","a","b">>, 5 >>,
      << <<"H","a","t","c","h","b","a","c","k">>, 5 >>,
      << <<"4","d","r"," ","C","a","r">>, 5 >>,
      << <<"D","o","u","b","l","e"," ","C","a","b">>, 5 >>,
      << <<"X","t","r","a","C","a","b">>, 4 >>,
      << <<"C","r","e","w","M","a","x">>, 5 >>,
      << <<"M","i","n","i","-","v","a","n",","," ","P","a","s","s","e","n","g","e","r">>, 7 >>,
      << <<"2","d","r"," ","C","a","r">>, 4 >> }

\* line 41: Series.map(dict) on one cell: a key gives its value, anything
\* else (NaN included) gives NaN
MapSeats_Default(cell) ==
    IF cell # None /\ \E e \in bodytype_to_seats : e[1] = cell[1]
       THEN Some((CHOOSE e \in bodytype_to_seats : e[1] = cell[1])[2])
       ELSE Some(5)
MapSeats(cell) ==
    IF cell # None /\ \E e \in bodytype_to_seats : e[1] = cell[1]
       THEN Some((CHOOSE e \in bodytype_to_seats : e[1] = cell[1])[2])
       ELSE None

\* a frame is a sequence of rows, a row a function from column names to cells
Columns(frame) == UNION { DOMAIN frame[i] : i \in 1..Len(frame) }
DropColumn(frame, col) ==
    [i \in 1..Len(frame) |-> [c \in DOMAIN frame[i] \ {col} |-> frame[i][c]]]

\* line 6: pd.concat([Honda, Toyota], ignore_index=True)
Concat_Reversed(a, b) ==
    LET cols == Columns(a) \cup Columns(b)
        fill(r) == [c \in cols |-> IF c \in DOMAIN r THEN r[c] ELSE None]
    IN  [i \in 1..Len(b) |-> fill(b[i])] \o [i \in 1..Len(a) |-> fill(a[i])]
Concat(a, b) ==
    LET cols == Columns(a) \cup Columns(b)
        fill(r) == [c \in cols |-> IF c \in DOMAIN r THEN r[c] ELSE None]
    IN  [i \in 1..Len(a) |-> fill(a[i])] \o [i \in 1..Len(b) |-> fill(b[i])]

\* lines 4-6
MConcat ==
    /\ mpc = "load"
    /\ combined_df' = Concat(Honda, Toyota)
    /\ mpc' = "extract"
    /\ UNCHANGED <<hsrc, tsrc, Honda, Toyota, inventory>>
    /\ UNCHANGED <<segVars, parseVars, hondaVars, rankVars, batchVars, runVars>>

\* line 9
MExtract ==
    /\ mpc = "extract"
    /\ combined_df' = [i \in 1..Len(combined_df) |->
          Put(combined_df[i], "MPG", StrExtract(combined_df[i]["MPG"]))]
    /\ mpc' = "replace"
    /\ UNCHANGED <<hsrc, tsrc, Honda, Toyota, inventory>>
    /\ UNCHANGED <<segVars, parseVars, hondaVars, rankVars, batchVars, runVars>>

\* line 12
MReplace ==
    /\ mpc = "replace"
    /\ combined_df' = [i \in 1..Len(combined_df) |->
          Put(combined_df[i], "MPG", StrReplace(combined_df[i]["MPG"]))]
    /\ mpc' = "split"
    /\ UNCHANGED <<hsrc, tsrc, Honda, Toyota, inventory>>
    /\ UNCHANGED <<segVars, parseVars, hondaVars, rankVars, batchVars, runVars>>

\* the two new columns of one row, given the cells of its split
SplitCells(row, parts) ==
    Put(Put(row, "CTY MPG", IF Len(parts) >= 1 THEN Some(parts[1]) ELSE None),
        "HWAY MPG", IF Len(parts) >= 2 THEN Some(parts[2]) ELSE None)

\* line 15: the expanded frame is as wide as the longest split; assigning
\* it to two columns raises unless it has exactly two
MSplit ==
    /\ mpc = "split"
    /\ LET parts == [i \in 1..Len(combined_df) |-> StrSplit(combined_df[i]["MPG"])]
           width == CHOOSE w \in 0..64 :
                       /\ \A i \in 1..Len(parts) : Len(parts[i]) <= w
                       /\ w = 0 \/ \E i \in 1..Len(parts) : Len(parts[i]) = w
       IN  IF width = 2
              THEN /\ combined_df' = [i \in 1..Len(combined_df) |->
                                         SplitCells(combined_df[i], parts[i])]
                   /\ mpc' = "float"
              ELSE /\ mpc' = "failed"
                   /\ UNCHANGED combined_df
    /\ UNCHANGED <<hsrc, tsrc, Honda, Toyota, inventory>>
    /\ UNCHANGED <<segVars, parseVars, hondaVars, rankVars, batchVars, runVars>>

\* line 18
MFloat ==
    /\ mpc = "float"
    /\ combined_df' = [i \in 1..Len(combined_df) |->
          Put(Put(combined_df[i], "CTY MPG", ToFloat(combined_df[i]["CTY MPG"])),
              "HWAY MPG", ToFloat(combined_df[i]["HWAY MPG"]))]
    /\ mpc' = "drop"
    /\ UNCHANGED <<hsrc, tsrc, Honda, Toyota, inventory>>
    /\ UNCHANGED <<segVars, parseVars, hondaVars, rankVars, batchVars, runVars>>

\* lines 21-23
MDrop ==
    /\ mpc = "drop"
    /\ combined_df' =
          DropColumn(DropColumn(DropColumn(combined_df, "MPG"), "Transmission"),
                     "Engine")
    /\ mpc' = "size"
    /\ UNCHANGED <<hsrc, tsrc, Honda, Toyota, inventory>>
    /\ UNCHANGED <<segVars, parseVars, hondaVars, rankVars, batchVars, runVars>>

\* lines 41-42
MSize ==
    /\ mpc = "size"
    /\ combined_df' = DropColumn(
          [i \in 1..Len(combined_df) |->
              Put(combined_df[i], "Size", MapSeats(combined_df[i]["Body Type"]))],
          "Body Type")
    /\ mpc' = "write"
    /\ UNCHANGED <<hsrc, tsrc, Honda, Toyota, inventory>>
    /\ UNCHANGED <<segVars, parseVars, hondaVars, rankVars, batchVars, runVars>>

\* lines 43-44: every missing cell is written as NA and read back as NaN
MWrite ==
    /\ mpc = "write"
    /\ inventory' = combined_df
    /\ mpc' = "done"
    /\ UNCHANGED <<hsrc, tsrc, Honda, Toyota, combined_df>>
    /\ UNCHANGED <<segVars, parseVars, hondaVars, rankVars, batchVars, runVars>>

-----------------------------------------------------------------------------
(* WheelFinder.generate_recs *)

\* Floats are exact rationals <<numerator, denominator>> in lowest terms,
\* denominator > 0; NaN is None
RECURSIVE Gcd(_, _)
Gcd(a, b) == IF b = 0 THEN a ELSE Gcd(b, a % b)
Abs(n) == IF n < 0 THEN -n ELSE n
Rat(n, d) ==
    LET g == Gcd(Abs(n), Abs(d))
    IN  IF d < 0 THEN <<(-n) \div g, (-d) \div g>> ELSE <<n \div g, d \div g>>
RatAdd(x, y) == Rat(x[1] * y[2] + y[1] * x[2], x[2] * y[2])
RatSub(x, y) == Rat(x[1] * y[2] - y[1] * x[2], x[2] * y[2])
RatMul(x, y) == Rat(x[1] * y[1], x[2] * y[2])
RatDiv(x, y) == Rat(x[1] * y[2], x[2] * y[1])
RatAbs(x)    == <<Abs(x[1]), x[2]>>
RatLess(x, y) == x[1] * y[2] < y[1] * x[2]

\* a number cell of the inventory as a float
Float(cell) == IF cell = None THEN None ELSE Some(Rat(cell[1], 1))

\* line 84: DataFrame.mean(axis=1) of one row's cells; pandas skips NaN
\* (skipna=True) and gives NaN only when every cell is NaN
Mean_PropagateNaN(cells) ==
    IF \E i \in 1..Len(cells) : cells[i] = None THEN None
    ELSE LET RECURSIVE Sum(_)
             Sum(k) == IF k = 0 THEN <<0, 1>> ELSE RatAdd(Sum(k - 1), cells[k][1])
         IN  Some(RatDiv(Sum(Len(cells)), <<Len(cells), 1>>))
Mean(cells) ==
    LET present == SelectSeq(cells, LAMBDA c : c # None)
        RECURSIVE Sum(_)
        Sum(k) == IF k = 0 THEN <<0, 1>> ELSE RatAdd(Sum(k - 1), present[k][1])
    IN  IF present = <<>> THEN None
        ELSE Some(RatDiv(Sum(Len(present)), <<Len(present), 1>>))

\* the index label of a row: the frames of this function keep the labels
\* 0..n-1 that read_csv gave the rows, carried here as one more key
INDEX == "<index>"

\* line 81: whether df is still the caller's object after `df = df.copy()`,
\* so that a column written to df shows in the caller's frame
Aliased_NoCopy == TRUE
Aliased == FALSE

\* lines 81-84
RAvg ==
    /\ rpc = "avg"
    /\ df' = [i \in 1..Len(inventory_df) |->
                 Put(Put(inventory_df[i], INDEX, i - 1), "Avg MPG",
                     Mean(<<Float(inventory_df[i]["CTY MPG"]),
                            Float(inventory_df[i]["HWAY MPG"])>>))]
    /\ inventory_df' = IF Aliased THEN df' ELSE inventory_df
    /\ rpc' = "filter"
    /\ UNCHANGED <<prefs, rout, top_5, calls, first_out>>
    /\ UNCHANGED <<segVars, parseVars, hondaVars, mergeVars, batchVars, runVars>>

\* pd.DataFrame(): no rows and no columns
EmptyFrame == [rows |-> <<>>, columns |-> {}]

\* lines 87-88: df[df['Brand'].isin(brand_pref)] under `if brand_pref`
BrandFilter_Ignored(frame, brand_pref) == frame
BrandFilter(frame, brand_pref) ==
    IF brand_pref # <<>>
       THEN SelectSeq(frame, LAMBDA r :
               \E k \in 1..Len(brand_pref) : r["Brand"] = Some(brand_pref[k]))
       ELSE frame

\* lines 87-94
RFilter ==
    /\ rpc = "filter"
    /\ LET kept == BrandFilter(df, prefs.brand_pref)
       IN  IF kept = <<>>
              THEN /\ df' = kept
                   /\ rout' = Some(EmptyFrame)
                   /\ rpc' = "returned"
              ELSE /\ df' = [i \in 1..Len(kept) |-> Put(kept[i], "Score", Some(<<0, 1>>))]
                   /\ rout' = rout
                   /\ rpc' = "price"
    /\ UNCHANGED <<inventory_df, prefs, top_5, calls, first_out>>
    /\ UNCHANGED <<segVars, parseVars, hondaVars, mergeVars, batchVars, runVars>>

\* abs(df[col] - pref) of one row
Diff(row, col, pref) ==
    IF row[col] = None THEN None
    ELSE Some(RatAbs(RatSub(IF col = "Avg MPG" THEN row[col][1]
                            ELSE Rat(row[col][1], 1), Rat(pref, 1))))

\* Series.max(): the largest value that is not NaN, NaN when there is none
SeriesMax(cells) ==
    LET present == { i \in 1..Len(cells) : cells[i] # None }
    IN  IF present = {} THEN None
        ELSE cells[CHOOSE i \in present :
                      \A j \in present : ~RatLess(cells[i][1], cells[j][1])]

\* x + y on floats: NaN when either operand is NaN
FloatAdd_SkipNaN(x, y) ==
    IF y = None THEN x ELSE IF x = None THEN y ELSE Some(RatAdd(x[1], y[1]))
FloatAdd(x, y) == IF x = None \/ y = None THEN None ELSE Some(RatAdd(x[1], y[1]))

\* lines 101, 109, 117: (1 - diff / max_diff) * weight
NormScore_Inverted(diff, max_diff, weight) ==
    RatMul(RatDiv(diff, max_diff), Rat(weight, 1))
NormScore(diff, max_diff, weight) ==
    RatMul(RatSub(<<1, 1>>, RatDiv(diff, max_diff)), Rat(weight, 1))

\* the frame when `max_diff > 0` is false: left as it is for price and mpg
\* (no else branch), Score += size_weight for size (lines 119-121)
NoSpread_NoElse(frame, weight, flat) == frame
NoSpread(frame, weight, flat) ==
    IF flat
       THEN [i \in 1..Len(frame) |->
               Put(frame[i], "Score",
                   FloatAdd(frame[i]["Score"], Some(Rat(weight, 1))))]
       ELSE frame

\* lines 97-102, 105-110, 113-121: the frame after one criterion.  Only the
\* size criterion has the else branch of lines 119-121.
Criterion(frame, col, pref, weight, flat) ==
    IF ~(weight > 0) THEN frame
    ELSE LET diff == [i \in 1..Len(frame) |-> Diff(frame[i], col, pref)]
             max_diff == SeriesMax(diff)
             score(i) == IF diff[i] = None THEN None
                         ELSE Some(NormScore(diff[i][1], max_diff[1], weight))
         IN  IF max_diff # None /\ RatLess(<<0, 1>>, max_diff[1])
                THEN [i \in 1..Len(frame) |->
                        Put(frame[i], "Score", FloatAdd(frame[i]["Score"], score(i)))]
                ELSE NoSpread(frame, weight, flat)

\* lines 96-102
RPrice ==
    /\ rpc = "price"
    /\ df' = Criterion(df, "Price", prefs.price_pref, prefs.price_weight, FALSE)
    /\ rpc' = "mpg"
    /\ UNCHANGED <<inventory_df, prefs, rout, top_5, calls, first_out>>
    /\ UNCHANGED <<segVars, parseVars, hondaVars, mergeVars, batchVars, runVars>>

\* lines 104-110
RMpg ==
    /\ rpc = "mpg"
    /\ df' = Criterion(df, "Avg MPG", prefs.mpg_pref, prefs.mpg_weight, FALSE)
    /\ rpc' = "size"
    /\ UNCHANGED <<inventory_df, prefs, rout, top_5, calls, first_out>>
    /\ UNCHANGED <<segVars, parseVars, hondaVars, mergeVars, batchVars, runVars>>

\* lines 112-121
RSize ==
    /\ rpc = "size"
    /\ df' = Criterion(df, "Size", prefs.size_pref, prefs.size_weight, TRUE)
    /\ rpc' = "top"
    /\ UNCHANGED <<inventory_df, prefs, rout, top_5, calls, first_out>>
    /\ UNCHANGED <<segVars, parseVars, hondaVars, mergeVars, batchVars, runVars>>

TOP_N == 5
OutColumns == {"Model", "Brand", "Year", "Price", "CTY MPG", "HWAY MPG", "Size"}

\* DataFrame.nlargest(n, 'Score'): the rows with a score by score
\* descending, equal scores in their original order, then the rows whose
\* score is NaN in their original order; the first n of that
RECURSIVE SortDesc(_)
SortDesc(frame) ==
    IF frame = <<>> THEN <<>>
    ELSE LET best == CHOOSE i \in 1..Len(frame) :
                        /\ \A j \in 1..Len(frame) :
                              ~RatLess(frame[i]["Score"][1], frame[j]["Score"][1])
                        /\ \A j \in 1..(i - 1) :
                              RatLess(frame[j]["Score"][1], frame[i]["Score"][1])
         IN  <<frame[best]>> \o
             SortDesc(SubSeq(frame, 1, best - 1) \o SubSeq(frame, best + 1, Len(frame)))
nlargest_TiesLast(n, frame) ==
    LET rev(q) == [i \in 1..Len(q) |-> q[Len(q) + 1 - i]]
        scored == SelectSeq(frame, LAMBDA r : r["Score"] # None)
        nans   == SelectSeq(frame, LAMBDA r : r["Score"] = None)
        all    == SortDesc(rev(scored)) \o nans
    IN  SubSeq(all, 1, IF Len(all) < n THEN Len(all) ELSE n)
nlargest_Unsorted(n, frame) ==
    SubSeq(frame, 1, IF Len(frame) < n THEN Len(frame) ELSE n)
nlargest(n, frame) ==
    LET scored == SelectSeq(frame, LAMBDA r : r["Score"] # None)
        nans   == SelectSeq(frame, LAMBDA r : r["Score"] = None)
        all    == SortDesc(scored) \o nans
    IN  SubSeq(all, 1, IF Len(all) < n THEN Len(all) ELSE n)

\* lines 124-125: frame[[...]], the listed columns of a frame with rows
Project_KeepAll(rows, cols) ==
    [rows |-> rows, columns |-> DOMAIN rows[1]]
Project(rows, cols) ==
    [rows |-> [i \in 1..Len(rows) |-> [c \in cols |-> rows[i][c]]],
     columns |-> cols]

\* lines 123-127
RTop ==
    /\ rpc = "top"
    /\ top_5' = nlargest(TOP_N, df)
    /\ rout' = Some(Project(top_5', OutColumns))
    /\ rpc' = "returned"
    /\ UNCHANGED <<inventory_df, prefs, df, calls, first_out>>
    /\ UNCHANGED <<segVars, parseVars, hondaVars, mergeVars, batchVars, runVars>>

\* the caller calls generate_recs once more with the same frame object and
\* the same preferences (lines 863-872)
RAgain ==
    /\ rpc = "returned"
    /\ calls = 1
    /\ first_out' = rout
    /\ calls' = 2
    /\ df' = <<>>
    /\ rout' = <<>>
    /\ top_5' = <<>>
    /\ rpc' = "avg"
    /\ UNCHANGED <<inventory_df, prefs>>
    /\ UNCHANGED <<segVars, parseVars, hondaVars, mergeVars, batchVars, runVars>>

-----------------------------------------------------------------------------
(* WheelFinder: /run_scrapers, run_scrapers_background, /scraper_status *)

\* Each POST is served by a thread of its own and starts one background
\* thread; both are the same entry of `runs`, whose pc is the line the entry
\* is about to execute:
\*   "l772" "l775"            the request handler (line 771 done on arrival)
\*   "l157" "l158"            the background thread's first two writes
\*   "call" "exec"            before / inside subprocess.run of script `k`
\*   "l164" "l165"            the last two writes
\*   "done" "died"            the thread returned / ended by the exception
\* started and succeeded are ghosts: the scripts the run launched, in order,
\* and those that ended with exit code 0.

MaxPosts == 2       \* most POST /run_scrapers requests in one behaviour

\* lines 160-162
Scripts_Swapped == <<"Toyota_Official.py", "Honda_Official.py", "Rec_Generator.py">>
Scripts == <<"Honda_Official.py", "Toyota_Official.py", "Rec_Generator.py">>

\* line 148: the except clause of run_scraper ends in a bare `raise`
Reraises_Swallowed == FALSE
Reraises == TRUE

SetRun(i, r) == [runs EXCEPT ![i] = r]

\* lines 770-771: a request arrives and the handler clears `running`
Post ==
    /\ Len(runs) < MaxPosts
    /\ scraper_status' = [scraper_status EXCEPT !.running = FALSE]
    /\ runs' = Append(runs, [pc |-> "l772", k |-> 1, started |-> <<>>,
                             succeeded |-> {}])
    /\ UNCHANGED seen
    /\ UNCHANGED <<segVars, parseVars, hondaVars, mergeVars, rankVars, batchVars>>

\* line 772
PostClear(i) ==
    /\ runs[i].pc = "l772"
    /\ scraper_status' = [scraper_status EXCEPT !.complete = FALSE]
    /\ runs' = SetRun(i, [runs[i] EXCEPT !.pc = "l775"])
    /\ UNCHANGED seen
    /\ UNCHANGED <<segVars, parseVars, hondaVars, mergeVars, rankVars, batchVars>>

\* lines 775-778: the thread is started and the handler returns
PostStart(i) ==
    /\ runs[i].pc = "l775"
    /\ runs' = SetRun(i, [runs[i] EXCEPT !.pc = "l157"])
    /\ UNCHANGED <<scraper_status, seen>>
    /\ UNCHANGED <<segVars, parseVars, hondaVars, mergeVars, rankVars, batchVars>>

\* line 157
BgRunning(i) ==
    /\ runs[i].pc = "l157"
    /\ scraper_status' = [scraper_status EXCEPT !.running = TRUE]
    /\ runs' = SetRun(i, [runs[i] EXCEPT !.pc = "l158"])
    /\ UNCHANGED seen
    /\ UNCHANGED <<segVars, parseVars, hondaVars, mergeVars, rankVars, batchVars>>

\* line 158
BgIncomplete(i) ==
    /\ runs[i].pc = "l158"
    /\ scraper_status' = [scraper_status EXCEPT !.complete = FALSE]
    /\ runs' = SetRun(i, [runs[i] EXCEPT !.pc = "call"])
    /\ UNCHANGED seen
    /\ UNCHANGED <<segVars, parseVars, hondaVars, mergeVars, rankVars, batchVars>>

\* lines 139-143: run_scraper launches the script
ScriptStart(i) ==
    /\ runs[i].pc = "call"
    /\ runs' = SetRun(i, [runs[i] EXCEPT
                             !.pc = "exec",
                             !.started = Append(@, Scripts[runs[i].k])])
    /\ UNCHANGED <<scraper_status, seen>>
    /\ UNCHANGED <<segVars, parseVars, hondaVars, mergeVars, rankVars, batchVars>>

\* lines 140-148 and 160-162: the script exits; with check=True a non-zero
\* exit code raises CalledProcessError, which run_scraper re-raises and
\* nothing in run_scrapers_background catches
ScriptExit(i) ==
    /\ runs[i].pc = "exec"
    /\ \E ok \in BOOLEAN :
          LET r    == runs[i]
              next == IF r.k < Len(Scripts)
                         THEN [r EXCEPT !.pc = "call", !.k = r.k + 1]
                         ELSE [r EXCEPT !.pc = "l164"]
          IN  runs' = SetRun(i,
                 IF ok THEN [next EXCEPT !.succeeded = @ \cup {Scripts[r.k]}]
                 ELSE IF Reraises THEN [r EXCEPT !.pc = "died"]
                 ELSE next)
    /\ UNCHANGED <<scraper_status, seen>>
    /\ UNCHANGED <<segVars, parseVars, hondaVars, mergeVars, rankVars, batchVars>>

\* line 164
BgNotRunning(i) ==
    /\ runs[i].pc = "l164"
    /\ scraper_status' = [scraper_status EXCEPT !.running = FALSE]
    /\ runs' = SetRun(i, [runs[i] EXCEPT !.pc = "l165"])
    /\ UNCHANGED seen
    /\ UNCHANGED <<segVars, parseVars, hondaVars, mergeVars, rankVars, batchVars>>

\* line 165
BgComplete(i) ==
    /\ runs[i].pc = "l165"
    /\ scraper_status' = [scraper_status EXCEPT !.complete = TRUE]
    /\ runs' = SetRun(i, [runs[i] EXCEPT !.pc = "done"])
    /\ UNCHANGED seen
    /\ UNCHANGED <<segVars, parseVars, hondaVars, mergeVars, rankVars, batchVars>>

\* lines 780-788: GET /scraper_status
Poll ==
    /\ seen' = Some(scraper_status)
    /\ seen' # seen
    /\ UNCHANGED <<scraper_status, runs>>
    /\ UNCHANGED <<segVars, parseVars, hondaVars, mergeVars, rankVars, batchVars>>

-----------------------------------------------------------------------------
(* Sample listings *)

\* sequences of 1..n elements of S
SeqUpTo(S, n) == UNION { [1..k -> S] : k \in 1..n }

\* sample listings of the Honda site
HondaSamples ==
    LET ua == CHOOSE u \in UrlSamples : u.url = "u-accord"
        uh == CHOOSE u \in UrlSamples : u.url = "u-hybrid"
        un == CHOOSE u \in UrlSamples : u.url = "u-nomatch"
    IN  { [u |-> ua, body |-> Some(<<"S","e","d","a","n">>),
           mpg |-> Some(<<30, 150>>), price |-> Some(25000),
           fuel |-> Some("Gasoline")],
          [u |-> uh, body |-> Some(<<"4","D"," ","S","U","V">>),
           mpg |-> Some(<<10, 38>>), price |-> Some(200001), fuel |-> None],
          [u |-> ua, body |-> None, mpg |-> Some(<<9, 30>>),
           price |-> Some(200000), fuel |-> None],
          [u |-> un, body |-> None, mpg |-> None, price |-> None,
           fuel |-> None] }

\* more listings of the Honda site: one per pair of captured MPG numbers and
\* one per body style, the table's keys among them
MpgGrid == {9, 10, 99, 100, 150, 151}
HondaGrid ==
    LET ua == CHOOSE u \in UrlSamples : u.url = "u-accord"
        row(mpg, body) == [u |-> ua, body |-> body, mpg |-> mpg,
                           price |-> Some(25000), fuel |-> Some("Gasoline")]
    IN  { row(Some(<<c, h>>), Some(<<"S","e","d","a","n">>)) :
             c \in MpgGrid, h \in MpgGrid }
        \cup { row(Some(<<30, 150>>), Some(e[1])) : e \in bodytype_to_seats }
        \cup { row(Some(<<30, 150>>), Some(<<"s","e","d","a","n">>)),
               row(Some(<<30, 150>>), Some(<<"4","d","r"," ","C","a","r","s">>)) }

\* the tables the Honda scraper can write: up to MaxRows sample listings, or
\* one listing of the grid followed by the first sample listing
HondaTables ==
    LET full == CHOOSE h \in HondaSamples : h.fuel # None
    IN  { h \in SeqUpTo(HondaSamples, MaxRows) : HondaTableOk(h) }
        \cup { <<g, full>> : g \in HondaGrid }

\* sample listings of the Toyota site: the JSON-LD model and offers.price
\* (which read_all_cars_one stores as it is) and the 7-slot fragment group
ToyotaSamples ==
    { [model |-> "Camry", price |-> Some(30000),
       group |-> << Tag(MARKER, <<"B","l","a","c","k">>, 0),
                    Tag("<none>", <<"4","d","r"," ","C","a","r">>, 0),
                    Tag("<none>", <<"3","1","/","4","0"," ","e","p","a">>, 0),
                    Tag("<none>", <<"4","-","C","y","l">>, 0),
                    NAstr, NAstr, NAstr >>],
      [model |-> "RAV4", price |-> Some(5000),
       group |-> << Tag("<none>", <<"H","y","b","r","i","d"," ","C","a","r">>, 0),
                    Tag("<none>", <<"5"," ","/","8"," ","E","P","A">>, 0),
                    NAstr, NAstr, NAstr, NAstr, NAstr >>],
      [model |-> "Tundra", price |-> None,
       group |-> << Tag("other", <<"R","e","d">>, 0),
                    NAstr, NAstr, NAstr, NAstr, NAstr, NAstr >>] }

\* a row of Wheelfinder_Inventory.csv
InventoryRow(model, brand, price, cty, hwy, size) ==
    [c \in OutColumns |->
       CASE c = "Model" -> Some(model) [] c = "Brand" -> Some(brand)
         [] c = "Year" -> Some("2025") [] c = "Price" -> price
         [] c = "CTY MPG" -> cty [] c = "HWAY MPG" -> hwy [] c = "Size" -> size]

MaxInv == 3         \* most rows of the inventory passed to generate_recs

RankRows ==
    { InventoryRow("Accord", "Honda",  Some(20000), Some(30), Some(30), Some(5)),
      InventoryRow("Camry",  "Toyota", Some(40000), Some(20), Some(30), Some(5)),
      InventoryRow("RAV4",   "Toyota", Some(25000), None,     None,     Some(7)),
      InventoryRow("Civic",  "Honda",  Some(30000), Some(31), None,     None),
      InventoryRow("Tundra", "Toyota", None,        None,     Some(22), Some(5)) }

\* inventories of six rows, one more than generate_recs returns: two sample
\* rows and then four fixed ones, two of them the same listing
LongInventories ==
    { s \o << InventoryRow("Accord", "Honda",  Some(20000), Some(30), Some(30), Some(5)),
              InventoryRow("Camry",  "Toyota", Some(40000), Some(20), Some(30), Some(5)),
              InventoryRow("Accord", "Honda",  Some(20000), Some(30), Some(30), Some(5)),
              InventoryRow("RAV4",   "Toyota", Some(25000), None,     None,     Some(7)) >>
      : s \in [1..2 -> RankRows] }

\* the inventories: the empty one, 1..MaxInv sample rows, and the long ones
Inventories == {<<>>} \cup SeqUpTo(RankRows, MaxInv) \cup LongInventories

\* the preferences posted by the form (lines 835-850), with weights of the
\* documented range 0-10
RangePreferences ==
    [ brand_pref   : { <<>>, <<"Honda">>, <<"Kia">> },
      price_pref   : {20000, 25000},
      price_weight : {0, 10},
      mpg_pref     : {30},
      mpg_weight   : {0, 5},
      size_pref    : {5},
      size_weight  : {0, 10} ]

\* the form's weights are read with int() and not checked (lines 840-850):
\* preferences with a weight below 0 or above 10
WidePreferences ==
    [ brand_pref   : { <<>> },
      price_pref   : {20000},
      price_weight : {-1, 11},
      mpg_pref     : {30},
      mpg_weight   : {0, 11},
      size_pref    : {5},
      size_weight  : {-3, 0} ]

Preferences == RangePreferences \cup WidePreferences

MaxUrls == 3        \* most listings of one batch

\* what loading a listing's page can do
Outcomes == {"ok", "cloudflare", "exception"}

\* the batches handed to scrape_all_cars
Batches ==
    {<<>>} \cup SeqUpTo([p : HondaSamples, outcome : Outcomes], MaxUrls)

-----------------------------------------------------------------------------
(* Specifications *)

vars == <<segVars, parseVars, hondaVars, mergeVars, rankVars, batchVars, runVars>>

ParseIdle ==
    /\ car_dict = <<>>
    /\ ptag = NAstr
    /\ pn = 0
    /\ first_set = <<>>
    /\ ppc = "idle"

SegIdle ==
    /\ result_list = <<>>
    /\ current_car = <<>>
    /\ cars = <<>>
    /\ groups = <<>>
    /\ ci = 0
    /\ fpc = "idle"

HondaIdle ==
    /\ car_data = NoDict
    /\ hpc = "idle"
    /\ rule = 0
    /\ rejected = {}
    /\ hresult = <<>>

MergeIdle ==
    /\ hsrc = <<>>
    /\ tsrc = <<>>
    /\ Honda = <<>>
    /\ Toyota = <<>>
    /\ combined_df = <<>>
    /\ inventory = <<>>
    /\ mpc = "idle"

RankIdle ==
    /\ inventory_df = <<>>
    /\ prefs = <<>>
    /\ df = <<>>
    /\ rout = <<>>
    /\ rpc = "idle"
    /\ top_5 = <<>>
    /\ calls = 0
    /\ first_out = <<>>

BatchIdle ==
    /\ urls = <<>>
    /\ bi = 0
    /\ hcars = <<>>
    /\ visited = <<>>
    /\ interrupted = FALSE
    /\ bdf = <<>>
    /\ bpc = "idle"

RunIdle ==
    /\ scraper_status = [running |-> FALSE, complete |-> FALSE]
    /\ runs = <<>>
    /\ seen = <<>>

SegInit ==
    /\ result_list = <<>>
    /\ current_car = <<>>
    /\ cars = <<>>
    /\ groups = <<>>
    /\ ci = 0
    /\ fpc = "loop"
    /\ ParseIdle
    /\ HondaIdle
    /\ MergeIdle
    /\ RankIdle
    /\ BatchIdle
    /\ RunIdle

SegNext == FillStep \/ FillEnd \/ CleanStep \/ FillReturn

SpecSegment == SegInit /\ [][SegNext]_vars

ParseInit ==
    /\ car_dict = EmptyDict
    /\ ptag = NAstr
    /\ pn = 0
    /\ first_set = EmptyDict
    /\ ppc = "loop"
    /\ SegIdle
    /\ HondaIdle
    /\ MergeIdle
    /\ RankIdle
    /\ BatchIdle
    /\ RunIdle

ParseNext == ParseTag \/ ParseReturn

SpecParse == ParseInit /\ [][ParseNext]_vars

HondaInit ==
    /\ car_data = NoDict
    /\ hpc = "get"
    /\ rule = 0
    /\ rejected = {}
    /\ hresult = <<>>
    /\ SegIdle
    /\ ParseIdle
    /\ MergeIdle
    /\ RankIdle
    /\ BatchIdle
    /\ RunIdle

HondaNext ==
    HGet \/ HBody \/ HMpgRule \/ HMpgEnd \/ HPriceRule \/ HPriceEnd \/ HFuelReturn

SpecHonda == HondaInit /\ [][HondaNext]_vars

\* the tables of a run of the two scrapers
MergeInit ==
    /\ hsrc \in HondaTables
    /\ tsrc \in SeqUpTo(ToyotaSamples, MaxRows)
    /\ Honda = [i \in 1..Len(hsrc) |-> HondaCsvRow(HondaDict(hsrc[i]))]
    /\ Toyota = [i \in 1..Len(tsrc) |-> ToyotaCsvRow(tsrc[i])]
    /\ combined_df = <<>>
    /\ inventory = <<>>
    /\ mpc = "load"
    /\ SegIdle
    /\ ParseIdle
    /\ HondaIdle
    /\ RankIdle
    /\ BatchIdle
    /\ RunIdle

MergeNext ==
    MConcat \/ MExtract \/ MReplace \/ MSplit \/ MFloat \/ MDrop \/ MSize \/ MWrite

SpecMerge == MergeInit /\ [][MergeNext]_vars

BatchInit ==
    /\ urls \in Batches
    /\ bi = 1
    /\ hcars = <<>>
    /\ visited = <<>>
    /\ interrupted = FALSE
    /\ bdf = <<>>
    /\ bpc = "loop"
    /\ SegIdle
    /\ ParseIdle
    /\ HondaIdle
    /\ MergeIdle
    /\ RankIdle
    /\ RunIdle

BatchNext == BStep \/ BInterrupt \/ BReturn

SpecBatch == BatchInit /\ [][BatchNext]_vars

RankInit ==
    /\ inventory_df \in Inventories
    /\ prefs \in Preferences
    /\ df = <<>>
    /\ rout = <<>>
    /\ rpc = "avg"
    /\ top_5 = <<>>
    /\ calls = 1
    /\ first_out = <<>>
    /\ SegIdle
    /\ ParseIdle
    /\ HondaIdle
    /\ MergeIdle
    /\ BatchIdle
    /\ RunIdle

RankNext == RAvg \/ RFilter \/ RPrice \/ RMpg \/ RSize \/ RTop \/ RAgain

SpecRank == RankInit /\ [][RankNext]_vars

RunInit ==
    /\ RunIdle
    /\ SegIdle
    /\ ParseIdle
    /\ HondaIdle
    /\ MergeIdle
    /\ RankIdle
    /\ BatchIdle

RunNext ==
    \/ Post
    \/ Poll
    \/ \E i \in 1..Len(runs) : PostClear(i)
    \/ \E i \in 1..Len(runs) : PostStart(i)
    \/ \E i \in 1..Len(runs) : BgRunning(i)
    \/ \E i \in 1..Len(runs) : BgIncomplete(i)
    \/ \E i \in 1..Len(runs) : ScriptStart(i)
    \/ \E i \in 1..Len(runs) : ScriptExit(i)
    \/ \E i \in 1..Len(runs) : BgNotRunning(i)
    \/ \E i \in 1..Len(runs) : BgComplete(i)

SpecRun == RunInit /\ [][RunNext]_vars

-----------------------------------------------------------------------------
(* C1: fill_cars normalises every group to exactly 7 slots: a group of     *)
(* n < 7 fragments keeps them in order followed by 7-n 'NA' strings, a     *)
(* group of n > 7 fragments keeps exactly its first 7 in order.            *)
C1_Normalised ==
    \A i \in 1..Len(cars) :
        (fpc = "done" \/ (fpc = "clean" /\ i < ci)) =>
            LET g == groups[i]
                n == Len(g)
                c == cars[i]
            IN  /\ Len(cars) = Len(groups)
                /\ Len(c) = 7
                /\ \A k \in 1..7 :
                      IF k <= n THEN c[k] = g[k] ELSE c[k] = NAstr

\* a short group was padded and a long group was truncated
C1_Witness ==
    /\ fpc = "done"
    /\ \E i \in 1..Len(groups) : Len(groups[i]) < 7 /\ cars[i][7] = NAstr
    /\ \E i \in 1..Len(groups) : Len(groups[i]) > 7 /\ Len(cars[i]) = 7

(* C2: in parse_car_details a populated field is never overwritten: the    *)
(* returned value of every field is the text of the first fragment the     *)
(* loop stored in it.  (Only Body Type is guarded in the code.)            *)
C2_FirstWins ==
    ppc = "done" => \A f \in Keys : car_dict[f] = first_set[f]

(* C3: parse_car_details never raises and returns a dictionary with        *)
(* exactly the seven canonical keys, each holding the stripped text of a   *)
(* fragment or 'NA', also for groups with padding strings and groups in    *)
(* which nothing is classified.                                            *)
C3_CompleteDict ==
    /\ ppc # "raised"
    /\ ppc \in {"loop", "done"} =>
        /\ DOMAIN car_dict = Keys
        /\ \A f \in Keys :
              \/ car_dict[f] = NA
              \/ \E t \in ParseTags : t.isTag /\ car_dict[f] = Strip(t.text)
        /\ (pn < EXPECTED_FIELDS_PER_CAR => ppc = "loop")

\* a group holding one unclassified fragment and six padding strings was
\* parsed to the end
C3_Witness ==
    /\ ppc = "done"
    /\ ptag = NAstr
    /\ pn = EXPECTED_FIELDS_PER_CAR
    /\ car_dict = EmptyDict

(* C5: in scrape_car_data a price outside [10000,200000] is never stored:  *)
(* Price is absent from the record or within [10000,200000], whichever     *)
(* price pattern matched.                                                  *)
C5_PriceInRange ==
    /\ "Price" \in DOMAIN car_data =>
          car_data["Price"] >= 10000 /\ car_data["Price"] <= 200000
    /\ \A r \in {hresult} :
          (r # <<>> /\ r[1] # None /\ "Price" \in DOMAIN r[1][1]) =>
              r[1][1]["Price"] >= 10000 /\ r[1][1]["Price"] <= 200000

\* a price pattern matched an out-of-range value and the record came back
\* without a Price
C5_Witness ==
    /\ hpc = "returned"
    /\ "Price" \in rejected
    /\ hresult # <<>> /\ hresult[1] # None
    /\ "Price" \notin DOMAIN hresult[1][1]

(* C6: scrape_car_data returns no record when fewer than two non-URL       *)
(* fields were populated.  (Line 155 always stores the Transmission        *)
(* placeholder, so the test of line 211 never discards anything.)          *)
C6_DiscardSparse ==
    (hpc = "returned" /\ car_data # NoDict
        /\ Cardinality(DOMAIN car_data \ {"url"}) < 2)
    => hresult = Some(None)

(* C4: an MPG pair with both numbers in [10,150], written by the Honda     *)
(* extractor as "<city> / <highway>", is recovered by the merger as        *)
(* CTY MPG = city and HWAY MPG = highway, in that order.                   *)
C4_MpgRoundTrip ==
    mpc = "done" =>
        \A i \in 1..Len(hsrc) :
            LET mpg == hsrc[i].mpg
            IN  (mpg # None /\ mpg[1][1] \in 10..150 /\ mpg[1][2] \in 10..150) =>
                    /\ inventory[i]["CTY MPG"] = Some(mpg[1][1])
                    /\ inventory[i]["HWAY MPG"] = Some(mpg[1][2])

\* a pair with a three-digit city figure above its highway figure came through
C4_Witness ==
    /\ mpc = "done"
    /\ hsrc[1].mpg = Some(<<100, 99>>)
    /\ inventory[1]["CTY MPG"] = Some(100)
    /\ inventory[1]["HWAY MPG"] = Some(99)

(* C7: merging a Honda table of m rows and a Toyota table of n rows gives  *)
(* m+n rows, the Honda rows first and then the Toyota rows, each in its    *)
(* original order; no later step drops, duplicates or reorders a row.      *)
C7_MergeOrder ==
    LET m == Len(Honda)
        n == Len(Toyota)
        Same(r, src) == \A c \in {"Model", "Brand", "Year", "Price"} : r[c] = src[c]
        InOrder(t) ==
            /\ Len(t) = m + n
            /\ \A i \in 1..m : Same(t[i], Honda[i])
            /\ \A j \in 1..n : Same(t[m + j], Toyota[j])
    IN  /\ mpc \in {"extract", "replace", "split", "float", "drop", "size",
                    "write", "done"} => InOrder(combined_df)
        /\ mpc = "done" => InOrder(inventory)

\* two distinct Honda rows and two distinct Toyota rows were merged
C7_Witness ==
    /\ mpc = "done"
    /\ Len(Honda) >= 2 /\ Len(Toyota) >= 2
    /\ Honda[1]["Model"] # Honda[2]["Model"]
    /\ Toyota[1]["Model"] # Toyota[2]["Model"]
    /\ Len(inventory) = Len(Honda) + Len(Toyota)

(* C8: Size is derived from Body Type through the lookup table alone:      *)
(* "Sedan" gives 5, every key gives its tabled value, and a Body Type that *)
(* is no key of the table, or is absent, gives an absent Size.             *)
C8_SeatsLookup ==
    mpc \in {"write", "done"} =>
        \A i \in 1..Len(combined_df) :
            LET bt == IF i <= Len(Honda) THEN Honda[i]["Body Type"]
                      ELSE Toyota[i - Len(Honda)]["Body Type"]
                size == combined_df[i]["Size"]
            IN  /\ bt = Some(<<"S","e","d","a","n">>) => size = Some(5)
                /\ \A e \in bodytype_to_seats :
                      bt = Some(e[1]) => size = Some(e[2])
                /\ (bt = None \/ \A e \in bodytype_to_seats : bt # Some(e[1]))
                      => size = None

\* a Sedan row got 5 seats, a row with an unlisted body type and a row with
\* no body type got none
C8_Witness ==
    /\ mpc = "done"
    /\ \E i \in 1..Len(Honda) :
          Honda[i]["Body Type"] = Some(<<"S","e","d","a","n">>)
          /\ inventory[i]["Size"] = Some(5)
    /\ \E i \in 1..Len(Honda) :
          Honda[i]["Body Type"] = Some(<<"4","D"," ","S","U","V">>)
          /\ inventory[i]["Size"] = None
    /\ \E j \in 1..Len(Toyota) :
          Toyota[j]["Body Type"] = None
          /\ inventory[Len(Honda) + j]["Size"] = None

(* C9: every row of the inventory, from either brand, has Price absent or  *)
(* within [10000,200000] and CTY MPG and HWAY MPG each absent or within    *)
(* [10,150].  (The Toyota scraper and the merger check no bound.)          *)
C9_InventoryBounds ==
    mpc = "done" =>
        \A i \in 1..Len(inventory) :
            LET r == inventory[i]
            IN  /\ r["Price"] = None
                   \/ (r["Price"][1] >= 10000 /\ r["Price"][1] <= 200000)
                /\ \A c \in {"CTY MPG", "HWAY MPG"} :
                      r[c] = None \/ (r[c][1] >= 10 /\ r[c][1] <= 150)

(* C10 (as stated): in generate_recs Avg MPG is the mean of CTY MPG and    *)
(* HWAY MPG when both are present, and is absent if either is absent.      *)
C10_AvgAbsentIfEither ==
    rpc \in {"filter", "price", "mpg", "size", "top", "returned"} =>
        \A i \in 1..Len(df) :
            LET c == df[i]["CTY MPG"]
                h == df[i]["HWAY MPG"]
            IN  /\ (c # None /\ h # None) =>
                      df[i]["Avg MPG"] = Some(Rat(c[1] + h[1], 2))
                /\ (c = None \/ h = None) => df[i]["Avg MPG"] = None

(* C10 (amended): Avg MPG is the mean of CTY MPG and HWAY MPG when both    *)
(* are present, is the present one when exactly one is absent, and is      *)
(* absent only when both are absent.                                       *)
C10_AvgSkipsAbsent ==
    rpc \in {"filter", "price", "mpg", "size", "top", "returned"} =>
        \A i \in 1..Len(df) :
            LET c == df[i]["CTY MPG"]
                h == df[i]["HWAY MPG"]
                avg == df[i]["Avg MPG"]
            IN  /\ (c # None /\ h # None) => avg = Some(Rat(c[1] + h[1], 2))
                /\ (c # None /\ h = None) => avg = Some(Rat(c[1], 1))
                /\ (c = None /\ h # None) => avg = Some(Rat(h[1], 1))
                /\ (c = None /\ h = None) => avg = None

\* a row with a city figure only got that figure as its average, next to a
\* row averaged from both figures
C10_Witness ==
    /\ rpc = "returned"
    /\ \E i \in 1..Len(df) :
          /\ df[i]["CTY MPG"] = Some(31) /\ df[i]["HWAY MPG"] = None
          /\ df[i]["Avg MPG"] = Some(<<31, 1>>)
    /\ \E i \in 1..Len(df) :
          /\ df[i]["CTY MPG"] = Some(20) /\ df[i]["HWAY MPG"] = Some(30)
          /\ df[i]["Avg MPG"] = Some(<<25, 1>>)

(* C11: generate_recs called with a non-empty brand list that matches no   *)
(* row, or with an empty inventory, returns an empty result at once: the   *)
(* step after the filter is the return, no row is kept and none is scored, *)
(* whatever the targets and weights are.                                   *)
C11_EmptyReturnsAtOnce ==
    [][ ( /\ rpc = "filter"
          /\ \/ inventory_df = <<>>
             \/ /\ prefs.brand_pref # <<>>
                /\ \A i \in 1..Len(inventory_df) :
                      \A k \in 1..Len(prefs.brand_pref) :
                          inventory_df[i]["Brand"] # Some(prefs.brand_pref[k]) )
        => ( /\ rpc' = "returned"
             /\ rout' # <<>>
             /\ rout'[1].rows = <<>>
             /\ df' = <<>> ) ]_vars

\* a list naming only a brand the inventory lacks, with every weight positive
C11_Witness ==
    /\ rpc = "returned"
    /\ prefs.brand_pref = <<"Kia">>
    /\ Len(inventory_df) = 2
    /\ prefs.price_weight > 0 /\ prefs.mpg_weight > 0 /\ prefs.size_weight > 0
    /\ rout = Some(EmptyFrame)

(* C12 (as stated): the result of generate_recs always carries the        *)
(* columns Model, Brand, Year, Price, CTY MPG, HWAY MPG, Size, also when   *)
(* the filtered inventory is empty.                                        *)
C12_SameColumns ==
    rpc = "returned" =>
        rout[1].columns = {"Model", "Brand", "Year", "Price", "CTY MPG",
                           "HWAY MPG", "Size"}

(* C12 (amended): when at least one row passes the brand filter the result *)
(* carries exactly the columns Model, Brand, Year, Price, CTY MPG, HWAY    *)
(* MPG, Size; when none does, the result is a table with no rows and no    *)
(* columns.                                                                *)
C12_ColumnsUnlessEmpty ==
    rpc = "returned" =>
        LET cols == {"Model", "Brand", "Year", "Price", "CTY MPG", "HWAY MPG", "Size"}
            passes(r) == \/ prefs.brand_pref = <<>>
                         \/ \E k \in 1..Len(prefs.brand_pref) :
                               r["Brand"] = Some(prefs.brand_pref[k])
        IN  IF \E i \in 1..Len(inventory_df) : passes(inventory_df[i])
               THEN /\ rout[1].columns = cols
                    /\ rout[1].rows # <<>>
                    /\ \A i \in 1..Len(rout[1].rows) : DOMAIN rout[1].rows[i] = cols
               ELSE /\ rout[1].columns = {}
                    /\ rout[1].rows = <<>>

\* the empty inventory gave a table without columns
C12_Witness ==
    /\ rpc = "returned"
    /\ inventory_df = <<>>
    /\ prefs.brand_pref = <<>>
    /\ rout[1].columns = {}

(* C13: for an axis with weight > 0 whose largest absolute difference     *)
(* from the target over the filtered rows is 0, the size step adds the     *)
(* full size weight to every row's score, while the price step and the mpg *)
(* step leave every score as it was.                                       *)
C13_ZeroVariance ==
    [][ LET float(col, r) == IF col = "Avg MPG" THEN r[col] ELSE Float(r[col])
            \* some row has a value in col, and every such value is the target
            zero(col, pref) ==
                /\ \E i \in 1..Len(df) : df[i][col] # None
                /\ \A i \in 1..Len(df) :
                      df[i][col] # None => float(col, df[i]) = Some(<<pref, 1>>)
            same == /\ Len(df') = Len(df)
                    /\ \A i \in 1..Len(df) : df'[i]["Score"] = df[i]["Score"]
            plus(w) == /\ Len(df') = Len(df)
                       /\ \A i \in 1..Len(df) :
                             df'[i]["Score"] =
                                IF df[i]["Score"] = None THEN None
                                ELSE Some(Rat(df[i]["Score"][1][1]
                                              + w * df[i]["Score"][1][2],
                                              df[i]["Score"][1][2]))
        IN  /\ (rpc = "price" /\ prefs.price_weight > 0
                /\ zero("Price", prefs.price_pref)) => same
            /\ (rpc = "mpg" /\ prefs.mpg_weight > 0
                /\ zero("Avg MPG", prefs.mpg_pref)) => same
            /\ (rpc = "size" /\ prefs.size_weight > 0
                /\ zero("Size", prefs.size_pref)) => plus(prefs.size_weight) ]_vars

\* two rows at the price target and at the size target, both weights
\* positive: the price step gave nothing and the size step its weight
C13_Witness ==
    /\ rpc = "top"
    /\ prefs.price_weight = 10 /\ prefs.mpg_weight = 0 /\ prefs.size_weight = 10
    /\ Len(df) = 2
    /\ \A i \in 1..2 :
          /\ df[i]["Price"] = Some(prefs.price_pref)
          /\ df[i]["Size"] = Some(prefs.size_pref)
          /\ df[i]["Score"] = Some(<<10, 1>>)

(* C14: with the price, mpg and size weights all 0 every row's score is 0  *)
(* and generate_recs returns the first 5 rows (all rows if fewer) of the   *)
(* inventory, filtered by brand if a list was given, in their original     *)
(* order, whatever the targets and the row values are.                     *)
C14_ZeroWeights ==
    ( /\ rpc = "returned"
      /\ prefs.price_weight = 0 /\ prefs.mpg_weight = 0 /\ prefs.size_weight = 0 )
    => LET passes(r) == \/ prefs.brand_pref = <<>>
                        \/ \E k \in 1..Len(prefs.brand_pref) :
                              r["Brand"] = Some(prefs.brand_pref[k])
           filtered == SelectSeq(inventory_df, passes)
           m == IF Len(filtered) < 5 THEN Len(filtered) ELSE 5
       IN  /\ \A i \in 1..Len(df) : df[i]["Score"] = Some(<<0, 1>>)
           /\ Len(rout[1].rows) = m
           /\ \A i \in 1..m :
                 \A c \in {"Model", "Brand", "Year", "Price", "CTY MPG",
                           "HWAY MPG", "Size"} :
                     rout[1].rows[i][c] = filtered[i][c]

\* six rows of differing prices and sizes, no brand list, all weights 0:
\* the first five came back and the sixth did not
C14_Witness ==
    /\ rpc = "returned"
    /\ prefs.price_weight = 0 /\ prefs.mpg_weight = 0 /\ prefs.size_weight = 0
    /\ prefs.brand_pref = <<>>
    /\ Len(inventory_df) = 6
    /\ inventory_df[1]["Price"] = Some(40000)
    /\ inventory_df[2]["Price"] = None
    /\ Len(rout[1].rows) = 5
    /\ rout[1].rows[1]["Model"] = inventory_df[1]["Model"]
    /\ rout[1].rows[5]["Model"] = inventory_df[5]["Model"]

(* C15: generate_recs returns min(5, number of filtered rows) rows ordered *)
(* by score descending; no omitted row has a strictly higher score than a  *)
(* returned row, and of two rows with equal score the one earlier in the   *)
(* inventory is ranked first and is preferred at the cut-off.              *)
C15_TopFive ==
    (rpc = "returned" /\ df # <<>>) =>
        LET score(r) == r["Score"]
            omitted  == { j \in 1..Len(df) :
                             \A i \in 1..Len(top_5) : top_5[i] # df[j] }
        IN  /\ Len(top_5) = (IF Len(df) < 5 THEN Len(df) ELSE 5)
            /\ \A i \in 1..Len(top_5) : \E j \in 1..Len(df) : top_5[i] = df[j]
            /\ \A i, j \in 1..Len(top_5) :
                  (i < j /\ score(top_5[i]) # None /\ score(top_5[j]) # None) =>
                      /\ ~RatLess(score(top_5[i])[1], score(top_5[j])[1])
                      /\ score(top_5[i]) = score(top_5[j]) =>
                            top_5[i][INDEX] < top_5[j][INDEX]
            /\ \A i \in 1..Len(top_5) : \A j \in omitted :
                  (score(top_5[i]) # None /\ score(df[j]) # None) =>
                      /\ ~RatLess(score(top_5[i])[1], score(df[j])[1])
                      /\ score(top_5[i]) = score(df[j]) =>
                            top_5[i][INDEX] < df[j][INDEX]
            /\ Len(rout[1].rows) = Len(top_5)
            /\ \A i \in 1..Len(top_5) :
                  \A c \in {"Model", "Brand", "Year", "Price", "CTY MPG",
                            "HWAY MPG", "Size"} :
                      rout[1].rows[i][c] = top_5[i][c]

\* six scored rows, the best one not the first of the inventory, and the
\* omitted one tied with a returned row
C15_Witness ==
    /\ rpc = "returned"
    /\ Len(df) = 6 /\ Len(top_5) = 5
    /\ \A j \in 1..6 : df[j]["Score"] # None
    /\ top_5[1][INDEX] > 0
    /\ RatLess(top_5[5]["Score"][1], top_5[1]["Score"][1])
    /\ \E j \in 1..6 :
          /\ \A i \in 1..5 : top_5[i] # df[j]
          /\ df[j]["Score"] = top_5[5]["Score"]

(* C16: on an axis with weight w > 0 and maxDiff > 0 over the filtered     *)
(* rows, a row with a value contributes w * (1 - diff/maxDiff): the full w *)
(* at the target, 0 at maxDiff, strictly more when strictly closer.  With  *)
(* prices 20000, 25000, 30000, target 25000, price weight 10 and the other *)
(* weights 0 the 25000 row scores strictly highest; with Honda 20000 and   *)
(* Toyota 40000, target 20000, the order is Honda (10) then Toyota (0).    *)
C16_NormalisedScore ==
    [][ LET axis == CASE rpc = "price" -> <<"Price", prefs.price_pref, prefs.price_weight>>
                      [] rpc = "mpg"   -> <<"Avg MPG", prefs.mpg_pref, prefs.mpg_weight>>
                      [] rpc = "size"  -> <<"Size", prefs.size_pref, prefs.size_weight>>
                      [] OTHER         -> <<"Price", 0, 0>>
            col == axis[1]
            w   == axis[3]
            has == { i \in 1..Len(df) : df[i][col] # None }
            val(i) == IF col = "Avg MPG" THEN df[i][col][1] ELSE <<df[i][col][1], 1>>
            d(i) == RatAbs(RatSub(val(i), <<axis[2], 1>>))
            M == d(CHOOSE i \in has : \A j \in has : ~RatLess(d(i), d(j)))
            gain(i) == RatSub(df'[i]["Score"][1], df[i]["Score"][1])
            scored == { i \in has : df[i]["Score"] # None }
            prices(q) == [i \in 1..Len(q) |-> q[i]["Price"]]
            only_price == /\ prefs.price_weight = 10 /\ prefs.mpg_weight = 0
                          /\ prefs.size_weight = 0 /\ prefs.brand_pref = <<>>
        IN  /\ ( /\ rpc \in {"price", "mpg", "size"} /\ w > 0
                 /\ has # {} /\ RatLess(<<0, 1>>, M) )
               => /\ Len(df') = Len(df)
                  /\ \A i \in scored :
                        /\ df'[i]["Score"] # None
                        /\ gain(i) = RatDiv(RatMul(<<w, 1>>, RatSub(M, d(i))), M)
                        /\ d(i) = <<0, 1>> => gain(i) = <<w, 1>>
                        /\ d(i) = M => gain(i) = <<0, 1>>
                        /\ \A j \in scored :
                              RatLess(d(i), d(j)) => RatLess(gain(j), gain(i))
            /\ ( /\ rpc' = "returned" /\ rpc = "top" /\ only_price
                 /\ prefs.price_pref = 25000
                 /\ prices(inventory_df) = <<Some(20000), Some(25000), Some(30000)>> )
               => /\ top_5'[1]["Price"] = Some(25000)
                  /\ \A i \in 2..3 :
                        RatLess(top_5'[i]["Score"][1], top_5'[1]["Score"][1])
            /\ ( /\ rpc' = "returned" /\ rpc = "top" /\ only_price
                 /\ prefs.price_pref = 20000
                 /\ prices(inventory_df) = <<Some(20000), Some(40000)>>
                 /\ inventory_df[1]["Brand"] = Some("Honda")
                 /\ inventory_df[2]["Brand"] = Some("Toyota") )
               => /\ Len(rout'[1].rows) = 2
                  /\ rout'[1].rows[1]["Brand"] = Some("Honda")
                  /\ rout'[1].rows[2]["Brand"] = Some("Toyota")
                  /\ top_5'[1]["Score"] = Some(<<10, 1>>)
                  /\ top_5'[2]["Score"] = Some(<<0, 1>>) ]_vars

\* the Honda 20000 / Toyota 40000 scenario, ranked
C16_Witness ==
    /\ rpc = "returned"
    /\ prefs.price_weight = 10 /\ prefs.mpg_weight = 0 /\ prefs.size_weight = 0
    /\ prefs.brand_pref = <<>> /\ prefs.price_pref = 20000
    /\ Len(inventory_df) = 2
    /\ inventory_df[1]["Price"] = Some(20000) /\ inventory_df[1]["Brand"] = Some("Honda")
    /\ inventory_df[2]["Price"] = Some(40000) /\ inventory_df[2]["Brand"] = Some("Toyota")
    /\ top_5[1]["Score"] = Some(<<10, 1>>)
    /\ top_5[2]["Score"] = Some(<<0, 1>>)

C18_WeightsChecked ==
    /\ rpc # "raised"
    /\ rpc = "returned" =>
          /\ prefs.price_weight \in 0..10
          /\ prefs.mpg_weight \in 0..10
          /\ prefs.size_weight \in 0..10

(* C19: in scrape_all_cars a listing for which scrape_car_data fails       *)
(* (exception, timeout or bot-challenge page, reported as no record) is    *)
(* left out and every later URL of the batch is still processed: unless    *)
(* the user interrupts the run, the returned table holds exactly the       *)
(* listings scraped successfully, in URL order.                            *)
C19_FailureIsolated ==
    (bpc = "done" /\ ~interrupted) =>
        LET n  == Len(urls)
            ok == SelectSeq([i \in 1..n |-> i], LAMBDA i : urls[i].outcome = "ok")
        IN  /\ visited = [i \in 1..n |-> i]
            /\ Len(bdf) = Len(ok)
            /\ \A k \in 1..Len(ok) :
                  LET d == HondaDict(urls[ok[k]].p)
                  IN  \A c \in DOMAIN d : bdf[k][c] = Some(d[c])

\* a batch whose first page raised and whose second page was a bot
\* challenge: the third listing was still scraped and is the only row
C19_Witness ==
    /\ bpc = "done"
    /\ ~interrupted
    /\ Len(urls) = 3
    /\ urls[1].outcome = "exception"
    /\ urls[2].outcome = "cloudflare"
    /\ urls[3].outcome = "ok"
    /\ visited = <<1, 2, 3>>
    /\ Len(bdf) = 1
    /\ bdf[1]["url"] = Some(urls[3].p.u.url)

(* C20: in fill_cars a fragment starts a new group exactly when (a) it is  *)
(* a boundary marker (its span type contains 'ddoa-interior-color'), or    *)
(* (b) the current group holds at least 7 fragments and the fragment is a  *)
(* body-type keyword fragment; then the accumulated group, if non-empty,   *)
(* is emitted and the fragment becomes the first element of the new group. *)
(* Any other fragment, a body-type keyword fragment arriving at fewer than *)
(* 7 among them, is appended to the current group and nothing is emitted.  *)
C20_Boundaries ==
    [][ (fpc = "loop" /\ result_list' # result_list) =>
          LET tag == result_list'[Len(result_list')]
              marker == tag.span \in {"ddoa-interior-color",
                                      "ddoa-interior-color strong"}
              body == \E kw \in { <<"C","a","r">>, <<"U","t","i","l","i","t","y">>,
                                  <<"M","i","n","i","-","v","a","n">>,
                                  <<"C","r","e","w","M","a","x">> } :
                          Contains(tag.text, kw)
          IN  IF marker \/ (Len(current_car) >= 7 /\ body)
                 THEN /\ current_car' = <<tag>>
                      /\ cars' = IF current_car # <<>>
                                    THEN Append(cars, current_car) ELSE cars
                 ELSE /\ current_car' = Append(current_car, tag)
                      /\ cars' = cars ]_vars

\* a body-type fragment was appended as the second of a group, and another
\* one, arriving when that group held seven, closed it and started the next
C20_Witness ==
    /\ fpc = "loop"
    /\ Len(cars) = 1
    /\ Len(cars[1]) = 7
    /\ cars[1][2].span = "<none>" /\ Contains(cars[1][2].text, <<"C","a","r">>)
    /\ Len(current_car) = 2
    /\ current_car[1].span = "<none>" /\ Contains(current_car[1].text, <<"C","a","r">>)
    /\ current_car[1].pos = 8

(* C21: when the stream is exhausted the trailing group is flushed if it is
   non-empty; the groups formed before normalisation are all non-empty, their
   concatenation in order is exactly the input stream, and an empty stream
   yields no groups. *)
C21_Partition ==
    LET RECURSIVE Flatten(_)
        Flatten(gs) == IF gs = <<>> THEN <<>> ELSE Head(gs) \o Flatten(Tail(gs))
    IN  fpc \in {"clean", "done"} =>
            /\ Flatten(groups) = result_list
            /\ \A g \in 1..Len(groups) : groups[g] # <<>>
            /\ (result_list = <<>> => groups = <<>>)
C21_Witness ==
    /\ fpc = "done"
    /\ Len(groups) = 2
    /\ Len(result_list) >= 3
    /\ ~IsStartSpan(result_list[1])
    /\ Len(groups[1]) = 1
    /\ IsStartSpan(groups[2][1])
    /\ Len(groups[2]) >= 2

(* C22: every fragment is classified by the first applicable rule of the
   fixed order marker, body-style keyword, drivetrain keyword, '/' with
   'EPA', engine keyword without 'Transmission', 'Transmission', all digits:
   an iteration of the loop changes no field other than the one that rule
   names, that field holds the fragment's text or what it held before, and a
   fragment matching no rule changes nothing.  (A body-style fragment that
   finds Body Type populated falls through to the later rules in the code.) *)
C22_FirstApplicable ==
    [][ (pn' = pn + 1 /\ ppc' = "loop") =>
          LET tag  == ptag'
              text == TagText(tag)
              f == IF hasattr_find_get(tag) /\ IsStartSpan(tag)
                      THEN "Interior Color"
                   ELSE IF ContainsAny(text, BodyKeywords) THEN "Body Type"
                   ELSE IF ContainsAny(text, DriveKeywords) THEN "Drive Type"
                   ELSE IF Contains(text, <<"/">>)
                           /\ Contains(Upper(text), <<"E","P","A">>) THEN "MPG"
                   ELSE IF ContainsAny(text, EngineKeywords)
                           /\ ~Contains(text, TRANSMISSION) THEN "Engine"
                   ELSE IF Contains(text, TRANSMISSION) THEN "Transmission"
                   ELSE IF IsDigit(text) THEN "Model Code"
                   ELSE DROPPED
          IN  \A k \in Keys :
                 \/ car_dict'[k] = car_dict[k]
                 \/ k = f /\ car_dict'[k] = text ]_vars

(* C23: the MPG rules and the Price rules are tried in priority order: a
   rule that does not match, or whose value fails the bound, leaves the
   record alone and hands over to the next rule; the first rule with an
   in-bounds value sets the field and ends the scan, and the field is never
   written again; when the rules run out the field is still unset, and the
   scan ends in the next phase, never in an error. *)
C23_RuleScan ==
    [][ /\ \A ph \in { [pc |-> "mpg", field |-> "MPG", n |-> MPG_RULES,
                         next |-> "price"],
                        [pc |-> "price", field |-> "Price", n |-> PRICE_RULES,
                         next |-> "fuel"] } :
              /\ (hpc = ph.pc /\ rule <= ph.n) =>
                    /\ ph.field \notin DOMAIN car_data
                    /\ \/ hpc' = ph.pc /\ rule' = rule + 1 /\ car_data' = car_data
                       \/ /\ hpc' = ph.next
                          /\ rejected' = rejected
                          /\ DOMAIN car_data' = DOMAIN car_data \cup {ph.field}
                          /\ \A k \in DOMAIN car_data : car_data'[k] = car_data[k]
              /\ (hpc = ph.pc /\ rule > ph.n) =>
                    /\ hpc' = ph.next
                    /\ car_data' = car_data
                    /\ ph.field \notin DOMAIN car_data'
              /\ (car_data # NoDict /\ ph.field \in DOMAIN car_data) =>
                    /\ ph.field \in DOMAIN car_data'
                    /\ car_data'[ph.field] = car_data[ph.field]
      ]_vars

\* a record came back whose MPG was set by a rule tried after a rejected
\* match, and whose Price was left unset after every price rule was tried
\* and at least one was rejected
C23_Witness ==
    /\ hpc = "returned"
    /\ rejected = {"MPG", "Price"}
    /\ car_data # NoDict
    /\ "MPG" \in DOMAIN car_data
    /\ "Price" \notin DOMAIN car_data

(* C27: a row whose value is absent on an axis with weight > 0 and
   maxDiff > 0 (maxDiff taken over the rows that have a value) has an absent
   total score, and no other row has; a row with an absent score is never
   ranked ahead of a row with a defined score, is among the top 5 only when
   fewer than 5 filtered rows have a defined score, and then follows all the
   scored rows, absent-score rows keeping their original order. *)
C27_AbsentScore ==
    (rpc = "returned" /\ df # <<>>) =>
        LET axes == { [col |-> "Price", pref |-> prefs.price_pref,
                       weight |-> prefs.price_weight],
                      [col |-> "Avg MPG", pref |-> prefs.mpg_pref,
                       weight |-> prefs.mpg_weight],
                      [col |-> "Size", pref |-> prefs.size_pref,
                       weight |-> prefs.size_weight] }
            spread(a) == \E i \in 1..Len(df) :
                            /\ df[i][a.col] # None
                            /\ RatLess(<<0, 1>>, Diff(df[i], a.col, a.pref)[1])
            hit(i)  == \E a \in axes :
                          a.weight > 0 /\ spread(a) /\ df[i][a.col] = None
            scored  == { j \in 1..Len(df) : df[j]["Score"] # None }
            absent(r) == r["Score"] = None
        IN  /\ \A i \in 1..Len(df) : hit(i) <=> absent(df[i])
            /\ \A i, j \in 1..Len(top_5) :
                  (i < j /\ absent(top_5[i])) =>
                      /\ absent(top_5[j])
                      /\ top_5[i][INDEX] < top_5[j][INDEX]
            /\ (\E i \in 1..Len(top_5) : absent(top_5[i])) =>
                  /\ Cardinality(scored) < 5
                  /\ \A j \in scored : \E i \in 1..Len(top_5) : top_5[i] = df[j]

\* the first row of a three-row inventory has no score and comes back last,
\* after the two scored rows
C27_Witness ==
    /\ rpc = "returned"
    /\ Len(df) = 3 /\ Len(top_5) = 3
    /\ df[1]["Score"] = None
    /\ df[2]["Score"] # None /\ df[3]["Score"] # None
    /\ top_5[3] = df[1]
    /\ top_5[1]["Score"] # None /\ top_5[2]["Score"] # None

(* C24: a background run launches Honda_Official.py, Toyota_Official.py and
   Rec_Generator.py in that order, each only after the one before it has
   finished with success, its first launch comes after its writes of lines
   157-158 and its writes of lines 164-165 come after all three have
   finished; while it is the only run, scraper_status is running=True,
   complete=False from the first launch on, and turns running=False or
   complete=True only after the last script has finished. *)
C24_Sequential ==
    LET order == <<"Honda_Official.py", "Toyota_Official.py", "Rec_Generator.py">>
        all   == {order[n] : n \in 1..3}
    IN  /\ \A i \in 1..Len(runs) :
              LET r == runs[i]
              IN  /\ Len(r.started) <= 3
                  /\ \A n \in 1..Len(r.started) : r.started[n] = order[n]
                  /\ \A n \in 1..(Len(r.started) - 1) :
                        r.started[n] \in r.succeeded
                  /\ r.started # <<>> =>
                        r.pc \notin {"l772", "l775", "l157", "l158"}
                  /\ r.pc \in {"l164", "l165", "done"} => r.succeeded = all
        /\ Len(runs) = 1 =>
              LET r == runs[1]
              IN  /\ r.pc \in {"call", "exec"} =>
                        scraper_status = [running |-> TRUE, complete |-> FALSE]
                  /\ (r.started # <<>>
                        /\ (scraper_status.complete \/ ~scraper_status.running))
                     => r.succeeded = all
                  /\ scraper_status.complete => r.pc = "done"

\* the only run went through its three scripts and reported completion
C24_Witness ==
    /\ Len(runs) = 1
    /\ runs[1].pc = "done"
    /\ Len(runs[1].started) = 3
    /\ scraper_status = [running |-> FALSE, complete |-> TRUE]

(* C25: whenever scraper_status has complete=True no background thread is
   executing a script, and running and complete are never both True, also
   when /run_scrapers is posted while an earlier run is still active. *)
C25_CompleteMeansIdle ==
    /\ scraper_status.complete =>
          \A i \in 1..Len(runs) : runs[i].pc # "exec"
    /\ ~(scraper_status.running /\ scraper_status.complete)

(* C26: a script that exits with an error ends its run: the exception is
   re-raised, no later script of that run is launched, and as long as
   /run_scrapers has been posted only once scraper_status stays
   running=True, complete=False and no poll returns complete=True;
   complete=True implies a run whose three scripts all succeeded. *)
C26_FailureSticks ==
    /\ \A i \in 1..Len(runs) :
          LET r == runs[i]
          IN  /\ Len(r.started) > Cardinality(r.succeeded) =>
                    /\ r.pc \in {"exec", "died"}
                    /\ Len(r.started) = Cardinality(r.succeeded) + 1
              /\ r.pc = "died" =>
                    /\ Len(r.started) = r.k
                    /\ r.started[r.k] \notin r.succeeded
                    /\ Len(runs) = 1 =>
                          /\ scraper_status = [running |-> TRUE, complete |-> FALSE]
                          /\ seen # <<>> => ~seen[1].complete
    /\ scraper_status.complete =>
          \E i \in 1..Len(runs) :
              /\ runs[i].pc = "done"
              /\ Cardinality(runs[i].succeeded) = 3

\* the only run died in its second script and was polled afterwards
C26_Witness ==
    /\ Len(runs) = 1
    /\ runs[1].pc = "died"
    /\ runs[1].started = <<"Honda_Official.py", "Toyota_Official.py">>
    /\ runs[1].succeeded = {"Honda_Official.py"}
    /\ seen = Some([running |-> TRUE, complete |-> FALSE])

====
